---- MODULE Spec2Model ----
(***************************************************************************)
(* Model of analyzeAttendance (src/src/lib/attendance.js): the biometric   *)
(* log of one employee is gathered, sorted by timestamp, walked once by    *)
(* the double-tap detector and the IN/OUT pairer, filtered by the          *)
(* requested month and year and aggregated into daily records.             *)
(*                                                                         *)
(* Dates are records [y, m, d] (the source keeps the text YYYY-MM-DD),     *)
(* times of day are seconds since midnight (the text HH:MM:SS), and a      *)
(* timestamp (Date object) is the number of seconds since 1970-01-01 of    *)
(* the literal date and time (no time-zone shift).  A reference to a       *)
(* record object is its index in allEmployeeRecords; 0 stands for null.    *)
(***************************************************************************)
EXTENDS Integers, Sequences, FiniteSets, TLC

VARIABLES
    fileText,            \* argument: the lines of the log
    employeeId,          \* argument
    month,               \* argument
    year,                \* argument
    tieUp,               \* the arithmetic: which way a sum half-way between two
                         \* hundredths of an hour falls when it is rounded
    pc,                  \* position in analyzeAttendance
    allEmployeeRecords,  \* the employee's records (objects, mutated by the pass)
    idx,                 \* number of records the forEach of line 75 has visited
    lastValid,           \* index of the last non-duplicate record, 0 = null
    currentIn,           \* index of the held IN record, 0 = null
    sessions,            \* sessions pushed so far
    filteredSessions,    \* sessions of the requested month and year
    report,              \* the returned object
    previous,            \* history: the arguments of the call before this one
    ids,                 \* getEmployeeIds: the Set ids, then the returned array
    page,                \* the state of the page component (its useState hooks)
    api                  \* the POST handler: its request and its responses

vars == <<fileText, employeeId, month, year, tieUp, pc, allEmployeeRecords, idx,
          lastValid, currentIn, sessions, filteredSessions, report, previous,
          ids, page, api>>

-----------------------------------------------------------------------------
(* Bounds of the model *)

MaxLines == 3

-----------------------------------------------------------------------------
(* Calendar and clock: what the Date object computes *)

SecondsPerDay == 24 * 60 * 60

\* 60 * 60 * 1000 ms in the source; the model counts seconds
DoubleTapWindow == 60 * 60

NoDate == [y |-> 0, m |-> 0, d |-> 0]

MkDate(y, m, d) == [y |-> y, m |-> m, d |-> d]

\* "HH:MM:SS" as seconds since midnight
MkTime(h, mi, s) == h * 3600 + mi * 60 + s

IsLeapYear(y) == (y % 4 = 0 /\ y % 100 # 0) \/ y % 400 = 0

DaysInMonth(y, m) ==
    IF m = 2 THEN (IF IsLeapYear(y) THEN 29 ELSE 28)
    ELSE IF m \in {4, 6, 9, 11} THEN 30 ELSE 31

IsValidDate(date) ==
    /\ date.m \in 1..12
    /\ date.d \in 1..DaysInMonth(date.y, date.m)

RECURSIVE DaysBeforeMonth(_, _)
DaysBeforeMonth(y, m) ==
    IF m <= 1 THEN 0 ELSE DaysBeforeMonth(y, m - 1) + DaysInMonth(y, m - 1)

\* days from 1970-01-01 to January 1st of year y (y >= 1970)
DaysBeforeYear(y) ==
    365 * (y - 1970) + ((y - 1969) \div 4) - ((y - 1901) \div 100)
        + ((y - 1601) \div 400)

DayNumber(date) ==
    DaysBeforeYear(date.y) + DaysBeforeMonth(date.y, date.m) + (date.d - 1)

\* The time value of an Invalid Date, and the result of arithmetic on it
\* (NaN): a number that no timestamp, difference or sum of the model equals.
\* Every comparison with NaN is false, so NaN is never compared directly.
NaN == -(2^30)

IsNaN(x) == x = NaN

\* a - b and a + b of the source
Minus(a, b) == IF IsNaN(a) \/ IsNaN(b) THEN NaN ELSE a - b

Plus(a, b) == IF IsNaN(a) \/ IsNaN(b) THEN NaN ELSE a + b

\* a < b and a <= b of the source
Less(a, b) == ~IsNaN(a) /\ ~IsNaN(b) /\ a < b

AtMost(a, b) == ~IsNaN(a) /\ ~IsNaN(b) /\ a <= b

\* new Date(`${date}T${time}`): an hour above 24 (or minutes or seconds
\* above 59, not modelled) makes the text unparseable and the Date invalid;
\* 24:00:00 parses as the midnight that ends the day
ToDateTime(date, time) ==
    IF time <= SecondsPerDay
    THEN DayNumber(date) * SecondsPerDay + time
    ELSE NaN

\* PrevDay with the day decremented in the text, without the Date object
PrevDay_NoRollover(date) == MkDate(date.y, date.m, date.d - 1)

\* PrevDay that takes every February for 28 days long
PrevDay_NoLeapYear(date) ==
    IF date.d > 1 THEN MkDate(date.y, date.m, date.d - 1)
    ELSE IF date.m > 1
         THEN MkDate(date.y, date.m - 1,
                     IF date.m - 1 = 2 THEN 28 ELSE DaysInMonth(date.y, date.m - 1))
         ELSE MkDate(date.y - 1, 12, 31)

\* new Date(y, m - 1, d); d.setDate(d.getDate() - 1); formatted back as
\* YYYY-MM-DD: day 0 of a month is the last day of the month before
PrevDay(date) ==
    IF date.d > 1 THEN MkDate(date.y, date.m, date.d - 1)
    ELSE IF date.m > 1
         THEN MkDate(date.y, date.m - 1, DaysInMonth(date.y, date.m - 1))
         ELSE MkDate(date.y - 1, 12, 31)

\* time.substring(0, 5): "HH:MM", the seconds are cut off
HHMM(time) == time \div 60

\* toLocaleTimeString('en-US', {hour: 'numeric', minute: '2-digit', hour12: true})
\* of an Invalid Date: the text "Invalid Date"
FormatTime(dateTime) ==
    IF IsNaN(dateTime)
    THEN [hour |-> 0, minute |-> 0, ampm |-> "Invalid Date"]
    ELSE LET t == dateTime % SecondsPerDay
             h == t \div 3600
         IN  [hour   |-> IF h % 12 = 0 THEN 12 ELSE h % 12,
              minute |-> (t % 3600) \div 60,
              ampm   |-> IF h < 12 THEN "AM" ELSE "PM"]

\* Object.keys(dailyGroups).sort(): the order of the text YYYY-MM-DD
DateKey(date) == date.y * 10000 + date.m * 100 + date.d

-----------------------------------------------------------------------------
(* Inputs *)

Feb29 == MkDate(2024, 2, 29)
Mar01 == MkDate(2024, 3, 1)

\* a log line: its first field, its number of whitespace-separated fields,
\* and the date, time and InOutStatus fields (read only when nf >= 5)
MkLine(id, date, time, io) ==
    [id |-> id, nf |-> 5, date |-> date, time |-> time, io |-> io]

\* scans one hour apart across midnight (23:10:00 -> 00:10:00), less than an
\* hour apart on one day and across midnight, and far apart
ScanTimes ==
    { <<Feb29, MkTime(23, 10, 0)>>, <<Feb29, MkTime(23, 50, 30)>>,
      <<Mar01, MkTime(0, 10, 0)>>,  <<Mar01, MkTime(9, 0, 0)>> }

\* 0 is IN and 1 is OUT; any other integer is read as OUT too
InOutStatuses == {0, 1}

TargetLines ==
    { MkLine("101", st[1], st[2], io) : st \in ScanTimes, io \in InOutStatuses }
       \cup { MkLine("101", Feb29, MkTime(23, 50, 30), 2) }

\* a line of another employee, and a line with too few fields
OtherLines ==
    { MkLine("102", Mar01, MkTime(9, 0, 0), 0),
      [id |-> "101", nf |-> 4, date |-> Mar01, time |-> MkTime(9, 0, 0), io |-> 0] }

Lines == TargetLines \cup OtherLines

\* lines of the employee whose time field is no time of day ("25:00:00")
InvalidLines ==
    { MkLine("101", Mar01, MkTime(25, 0, 0), io) : io \in InOutStatuses }

\* the scans they stand among: late evening, after midnight and morning
NightLines ==
    { MkLine("101", st[1], st[2], io) :
         st \in ScanTimes \ { <<Feb29, MkTime(23, 50, 30)>> }, io \in InOutStatuses }

RECURSIVE SeqsUpTo(_, _)
SeqsUpTo(S, n) ==
    IF n = 0 THEN { <<>> }
    ELSE LET shorter == SeqsUpTo(S, n - 1)
         IN  shorter \cup { Append(s, x) : s \in shorter, x \in S }

\* the logs with a line whose time does not parse
InvalidLogs ==
    { s \in SeqsUpTo(NightLines \cup InvalidLines, MaxLines) :
         \E i \in 1..Len(s) : s[i] \in InvalidLines }

Logs == SeqsUpTo(Lines, MaxLines) \cup InvalidLogs

\* logs one line longer than those of Logs, of IN and OUT scans of the
\* employee: the shortest logs in which a day has both a session without its
\* OUT and a session without its IN
LongLines == MaxLines + 1

SeqsOfLen(S, n) == { s \in SeqsUpTo(S, n) : Len(s) = n }

LongLogs ==
    SeqsOfLen({ MkLine("101", st[1], st[2], io) : st \in ScanTimes, io \in {0, 1} },
              LongLines)

\* the logs that the property comparing two calls starts from: a night
\* shift, a morning, the same scan twice, a line whose time does not parse,
\* a line of another employee
BaseLines ==
    { MkLine("101", Feb29, MkTime(23, 10, 0), 0),
      MkLine("101", Mar01, MkTime(0, 10, 0), 1),
      MkLine("101", Mar01, MkTime(9, 0, 0), 0),
      MkLine("101", Mar01, MkTime(9, 0, 0), 1),
      MkLine("101", Mar01, MkTime(25, 0, 0), 1) }

BaseLogs ==
    SeqsUpTo(BaseLines \cup { MkLine("102", Mar01, MkTime(9, 0, 0), 0) }, MaxLines)

Periods == { <<2, 2024>>, <<3, 2024>> }

\* scans around the first day of a month: after a leap February, after a
\* common February, after a December
MonthStartLines ==
    { MkLine("101", MkDate(2024, 3, 1), MkTime(0, 10, 0), 1),
      MkLine("101", MkDate(2023, 3, 1), MkTime(0, 10, 0), 1),
      MkLine("101", MkDate(2024, 1, 1), MkTime(0, 10, 0), 1),
      MkLine("101", MkDate(2023, 12, 31), MkTime(23, 10, 0), 0),
      MkLine("101", MkDate(2024, 1, 1), MkTime(9, 0, 0), 0) }

MonthStartLogs == SeqsUpTo(MonthStartLines, MaxLines)

\* the months before and after these first days
MonthStartPeriods ==
    { <<2, 2023>>, <<3, 2023>>, <<12, 2023>>, <<1, 2024>>, <<2, 2024>>, <<3, 2024>> }

\* the logs of the documented scenarios
CrossMidnightExample ==
    << MkLine("101", MkDate(2024, 1, 31), MkTime(23, 50, 0), 0),
       MkLine("101", MkDate(2024, 2, 1), MkTime(0, 10, 0), 1) >>

DoubleTapExample ==
    << MkLine("101", MkDate(2024, 3, 4), MkTime(9, 0, 0), 0),
       MkLine("101", MkDate(2024, 3, 4), MkTime(9, 10, 0), 0),
       MkLine("101", MkDate(2024, 3, 4), MkTime(17, 10, 0), 1) >>

OrphanExample == << MkLine("101", MkDate(2024, 3, 5), MkTime(18, 0, 0), 1) >>

EndToEndExample ==
    << MkLine("101", MkDate(2024, 3, 1), MkTime(9, 0, 0), 0),
       MkLine("101", MkDate(2024, 3, 1), MkTime(18, 0, 0), 1),
       MkLine("101", MkDate(2024, 3, 2), MkTime(9, 5, 0), 0) >>

\* each with the period asked for
ExampleCalls ==
    { <<CrossMidnightExample, 1, 2024>>, <<DoubleTapExample, 3, 2024>>,
      <<OrphanExample, 3, 2024>>, <<EndToEndExample, 3, 2024>> }

\* a log of two employees: a day of 102 around a night shift of 101
SharedLog ==
    << MkLine("102", Feb29, MkTime(23, 10, 0), 0),
       MkLine("101", Feb29, MkTime(23, 50, 30), 0),
       MkLine("102", Mar01, MkTime(0, 10, 0), 1),
       MkLine("101", Mar01, MkTime(9, 0, 0), 1),
       MkLine("102", Mar01, MkTime(9, 0, 0), 1) >>

\* the calls of a session of the application: (fileText, employeeId, month, year)
CallArgs ==
    { <<c[1], "101", c[2], c[3]>> : c \in ExampleCalls }
       \cup { <<SharedLog, id, p[1], p[2]>> : id \in {"101", "102"}, p \in Periods }

\* no call before this one
NoCall == <<>>

-----------------------------------------------------------------------------
(* Helpers of the pass *)

\* the object pushed at line 57; isDuplicate and reportDate are not yet set
\* (undefined, which reads as false / as no date)
MkRecord(line) ==
    [id |-> line.id, date |-> line.date, time |-> line.time,
     dateTime |-> ToDateTime(line.date, line.time),
     inOutStatus |-> line.io,
     isDuplicate |-> FALSE, reportDate |-> NoDate]

\* GatherRecords without the test of the employee id
RECURSIVE GatherRecords_NoIdFilter(_, _)
GatherRecords_NoIdFilter(lines, id) ==
    IF lines = <<>> THEN <<>>
    ELSE LET line == Head(lines)
             rest == GatherRecords_NoIdFilter(Tail(lines), id)
         IN  IF line.nf < 5 THEN rest ELSE <<MkRecord(line)>> \o rest

\* GatherRecords that takes a line of four fields for complete
RECURSIVE GatherRecords_FourFields(_, _)
GatherRecords_FourFields(lines, id) ==
    IF lines = <<>> THEN <<>>
    ELSE LET line == Head(lines)
             rest == GatherRecords_FourFields(Tail(lines), id)
         IN  IF line.nf < 4 THEN rest
             ELSE IF line.id = id THEN <<MkRecord(line)>> \o rest
             ELSE rest

\* lines 51-65: the lines with at least 5 fields whose first field is employeeId
RECURSIVE GatherRecords(_, _)
GatherRecords(lines, id) ==
    IF lines = <<>> THEN <<>>
    ELSE LET line == Head(lines)
             rest == GatherRecords(Tail(lines), id)
         IN  IF line.nf < 5 THEN rest
             ELSE IF line.id = id THEN <<MkRecord(line)>> \o rest
             ELSE rest

\* (a, b) => a.dateTime - b.dateTime as sort reads it: a NaN counts as +0
Compare(a, b) ==
    IF IsNaN(Minus(a.dateTime, b.dateTime)) THEN 0 ELSE a.dateTime - b.dateTime

\* line 68: Array.prototype.sort is stable
RECURSIVE InsertByDateTime(_, _)
InsertByDateTime(sorted, r) ==
    IF sorted = <<>> THEN <<r>>
    ELSE LET n == Len(sorted)
         IN  IF Compare(sorted[n], r) <= 0
             THEN Append(sorted, r)
             ELSE Append(InsertByDateTime(SubSeq(sorted, 1, n - 1), r), sorted[n])

\* SortByDateTime that leaves the records in file order
SortByDateTime_FileOrder(s) == s

RECURSIVE SortByDateTime(_)
SortByDateTime(s) ==
    IF s = <<>> THEN <<>>
    ELSE InsertByDateTime(SortByDateTime(SubSeq(s, 1, Len(s) - 1)), s[Len(s)])

\* Compare is a consistent comparator on the elements of s: no element with
\* an Invalid Date compares equal to two elements that differ
IsConsistent(s) ==
    \/ \A i \in 1..Len(s) : ~IsNaN(s[i].dateTime)
    \/ \A i, j \in 1..Len(s) : Compare(s[i], s[j]) = 0

\* the sequence s in every order
Orderings(s) ==
    { [i \in 1..Len(s) |-> s[p[i]]] : p \in Permutations(1..Len(s)) }

\* what sort can leave: the stable ascending order, or, with a comparator
\* that is not consistent, an order the implementation defines
SortOutcomes(s) ==
    IF IsConsistent(s) THEN { SortByDateTime(s) } ELSE Orderings(s)

\* lines 77-79: the double-tap test of record rec against lastValid lv
IsDoubleTap(rec, lv) ==
    /\ rec.inOutStatus = lv.inOutStatus
    /\ Less(Minus(rec.dateTime, lv.dateTime), DoubleTapWindow)

\* IsIn that takes InOutStatus 1 for IN
IsIn_One(rec) == rec.inOutStatus = 1

\* line 89
IsIn(rec) == rec.inOutStatus = 0

\* line 105
IsNextDayOut(out, in) == out.date # in.date

MkSession(date, in, out, status, nextDay) ==
    [date |-> date, in |-> in, out |-> out, status |-> status,
     isNextDayOut |-> nextDay]

\* lines 92-97 and 134-139: the held IN closed without an OUT.  The object has
\* no isNextDayOut field (undefined reads as false at line 209).
OutMissingSession(recs, in) ==
    MkSession(recs[in].date, in, 0, "OUT MISSING", FALSE)

\* NormalSession attributed to the OUT's date
NormalSession_OnOutDate(recs, in, out) ==
    MkSession(recs[out].date, in, out, "NORMAL", IsNextDayOut(recs[out], recs[in]))

\* lines 104-112
NormalSession(recs, in, out) ==
    MkSession(recs[in].date, in, out, "NORMAL", IsNextDayOut(recs[out], recs[in]))

\* NoInSession with the status of the other half-session
NoInSession_Mislabelled(recs, out) ==
    MkSession(PrevDay(recs[out].date), 0, out, "OUT MISSING", FALSE)

\* NoInSession attributed to the OUT's own date
NoInSession_OnOwnDate(recs, out) ==
    MkSession(recs[out].date, 0, out, "NO IN RECORD", FALSE)

\* lines 116-127
NoInSession(recs, out) ==
    MkSession(PrevDay(recs[out].date), 0, out, "NO IN RECORD", FALSE)

-----------------------------------------------------------------------------
(* Period filter and daily aggregation *)

\* InPeriod that takes the requested month as zero-based
InPeriod_ZeroBasedMonth(sess, mo, yr) == sess.date.m - 1 = mo /\ sess.date.y = yr

\* lines 143-146
InPeriod(sess, mo, yr) == sess.date.m = mo /\ sess.date.y = yr

FilterSessions(ss, mo, yr) == SelectSeq(ss, LAMBDA s : InPeriod(s, mo, yr))

\* lines 149-153: the sessions of one date, in the order they were pushed
DaySessions(fs, date) == SelectSeq(fs, LAMBDA s : s.date = date)

\* line 159: the keys of dailyGroups in ascending order
RECURSIVE SortDates(_)
SortDates(D) ==
    IF D = {} THEN <<>>
    ELSE LET first == CHOOSE x \in D : \A z \in D : DateKey(x) <= DateKey(z)
         IN  <<first>> \o SortDates(D \ {first})

\* SortedDates without the sort: the keys in the order they were inserted
RECURSIVE SortedDates_InsertionOrder(_)
SortedDates_InsertionOrder(fs) ==
    IF fs = <<>> THEN <<>>
    ELSE LET n    == Len(fs)
             init == SubSeq(fs, 1, n - 1)
         IN  IF \E i \in 1..(n - 1) : fs[i].date = fs[n].date
             THEN SortedDates_InsertionOrder(init)
             ELSE Append(SortedDates_InsertionOrder(init), fs[n].date)

SortedDates(fs) == SortDates({ fs[i].date : i \in 1..Len(fs) })

Dash == <<>>

\* time.substring(0, 5) of a record: hour and minute
TimeHHMM(time) == << HHMM(time) \div 60, HHMM(time) % 60 >>

\* lines 178-185
LogEntry(r) ==
    [time |-> TimeHHMM(r.time), displayTime |-> FormatTime(r.dateTime),
     displayDate |-> r.date, dateTime |-> r.dateTime,
     type |-> IF r.inOutStatus = 0 THEN "IN" ELSE "OUT",
     isDuplicate |-> r.isDuplicate]

RECURSIVE MapLogEntry(_)
MapLogEntry(rs) ==
    IF rs = <<>> THEN <<>> ELSE <<LogEntry(Head(rs))>> \o MapLogEntry(Tail(rs))

\* DayLogs that selects by the scan's own date
DayLogs_ByScanDate(recs, date) ==
    SortOutcomes(MapLogEntry(SelectSeq(recs, LAMBDA r : r.date = date)))

\* the arrays line 185 can leave (one, unless an entry has an Invalid Date)
DayLogs(recs, date) ==
    SortOutcomes(MapLogEntry(SelectSeq(recs, LAMBDA r : r.reportDate = date)))

\* lines 164-167: the accumulators of one day; hours are kept as seconds
DayStart == [seconds |-> 0, inTime |-> Dash, outTime |-> Dash, status |-> "NORMAL"]

FallbackSeconds == 8 * 3600

\* AddSession that adds no hours for a session without its pair
AddSession_NoFallback(acc, sess, recs) ==
    LET a1 == IF sess.in # 0 /\ acc.inTime = Dash
              THEN [acc EXCEPT !.inTime = TimeHHMM(recs[sess.in].time)]
              ELSE acc
        a2 == IF sess.out # 0
              THEN [a1 EXCEPT !.outTime = TimeHHMM(recs[sess.out].time)]
              ELSE a1
    IN  IF sess.status = "NORMAL" /\ sess.in # 0 /\ sess.out # 0
        THEN [a2 EXCEPT !.seconds =
                 Plus(@, Minus(recs[sess.out].dateTime, recs[sess.in].dateTime))]
        ELSE [a2 EXCEPT
                 !.status = IF sess.status = "OUT MISSING" THEN "OUT MISSING"
                            ELSE IF sess.status = "NO IN RECORD" /\ @ = "NORMAL"
                                 THEN "NO IN RECORD"
                                 ELSE @]

\* AddSession in which the status of the last session without its pair wins
AddSession_LastWins(acc, sess, recs) ==
    LET a1 == IF sess.in # 0 /\ acc.inTime = Dash
              THEN [acc EXCEPT !.inTime = TimeHHMM(recs[sess.in].time)]
              ELSE acc
        a2 == IF sess.out # 0
              THEN [a1 EXCEPT !.outTime = TimeHHMM(recs[sess.out].time)]
              ELSE a1
    IN  IF sess.status = "NORMAL" /\ sess.in # 0 /\ sess.out # 0
        THEN [a2 EXCEPT !.seconds =
                 Plus(@, Minus(recs[sess.out].dateTime, recs[sess.in].dateTime))]
        ELSE [a2 EXCEPT !.seconds = Plus(@, FallbackSeconds),
                        !.status = sess.status]

\* AddSession that keeps the first OUT time of the day, as it does for IN
AddSession_FirstOut(acc, sess, recs) ==
    LET a1 == IF sess.in # 0 /\ acc.inTime = Dash
              THEN [acc EXCEPT !.inTime = TimeHHMM(recs[sess.in].time)]
              ELSE acc
        a2 == IF sess.out # 0 /\ a1.outTime = Dash
              THEN [a1 EXCEPT !.outTime = TimeHHMM(recs[sess.out].time)]
              ELSE a1
    IN  IF sess.status = "NORMAL" /\ sess.in # 0 /\ sess.out # 0
        THEN [a2 EXCEPT !.seconds =
                 Plus(@, Minus(recs[sess.out].dateTime, recs[sess.in].dateTime))]
        ELSE [a2 EXCEPT
                 !.seconds = Plus(@, FallbackSeconds),
                 !.status = IF sess.status = "OUT MISSING" THEN "OUT MISSING"
                            ELSE IF sess.status = "NO IN RECORD" /\ @ = "NORMAL"
                                 THEN "NO IN RECORD"
                                 ELSE @]

\* lines 188-203: one turn of daySessions.forEach
AddSession(acc, sess, recs) ==
    LET a1 == IF sess.in # 0 /\ acc.inTime = Dash
              THEN [acc EXCEPT !.inTime = TimeHHMM(recs[sess.in].time)]
              ELSE acc
        a2 == IF sess.out # 0
              THEN [a1 EXCEPT !.outTime = TimeHHMM(recs[sess.out].time)]
              ELSE a1
    IN  IF sess.status = "NORMAL" /\ sess.in # 0 /\ sess.out # 0
        THEN [a2 EXCEPT !.seconds =
                 Plus(@, Minus(recs[sess.out].dateTime, recs[sess.in].dateTime))]
        ELSE [a2 EXCEPT
                 !.seconds = Plus(@, FallbackSeconds),
                 !.status = IF sess.status = "OUT MISSING" THEN "OUT MISSING"
                            ELSE IF sess.status = "NO IN RECORD" /\ @ = "NORMAL"
                                 THEN "NO IN RECORD"
                                 ELSE @]

RECURSIVE FoldSessions(_, _, _)
FoldSessions(acc, ss, recs) ==
    IF ss = <<>> THEN acc
    ELSE FoldSessions(AddSession(acc, Head(ss), recs), Tail(ss), recs)

\* line 215: parseFloat(totalDayHours.toFixed(2)), in hundredths of an hour:
\* the hundredth nearest to the sum.  For a sum exactly half-way between two
\* hundredths (x.xx5 hours) the double that totalDayHours holds lies just
\* above or just below it, and toFixed follows the double: up tells which.
\* The sign is put back after the digits are rounded; NaN stays NaN.
RoundHundredths(seconds, up) ==
    IF (seconds * 100) % 3600 = 1800
    THEN (seconds * 100) \div 3600 + (IF up THEN 1 ELSE 0)
    ELSE (seconds * 100 + 1800) \div 3600

ToFixed2(seconds, up) ==
    IF IsNaN(seconds) THEN NaN
    ELSE IF seconds < 0 THEN 0 - RoundHundredths(0 - seconds, up)
    ELSE RoundHundredths(seconds, up)

\* line 209
DayIsNextDayOut(ss) == \E i \in 1..Len(ss) : ss[i].isNextDayOut

\* lines 162-220: the daily record of one date, dayLogs being its logs
DailyRecord(date, fs, recs, up, dayLogs) ==
    LET daySessions == DaySessions(fs, date)
        acc         == FoldSessions(DayStart, daySessions, recs)
    IN  [date |-> date, inTime |-> acc.inTime, outTime |-> acc.outTime,
         totalHours |-> ToFixed2(acc.seconds, up), scanCount |-> Len(dayLogs),
         status |-> acc.status, isNextDayOut |-> DayIsNextDayOut(daySessions),
         logs |-> dayLogs]

\* lines 161-221: the arrays dailyRecords can be, one for each way the logs
\* of the days can be left by their sort
RECURSIVE DailyRecords(_, _, _, _)
DailyRecords(dates, fs, recs, up) ==
    IF dates = <<>> THEN { <<>> }
    ELSE { <<DailyRecord(Head(dates), fs, recs, up, dayLogs)>> \o rest :
              dayLogs \in DayLogs(recs, Head(dates)),
              rest \in DailyRecords(Tail(dates), fs, recs, up) }

\* CountStatus whose second branch is a plain else: every day that is not
\* NORMAL is counted as OUT MISSING
CountStatus_PlainElse(days, status) ==
    IF status = "NORMAL"
    THEN Cardinality({ i \in 1..Len(days) : days[i].status = "NORMAL" })
    ELSE Cardinality({ i \in 1..Len(days) : days[i].status # "NORMAL" })

\* lines 206-207: the days counted by a running total
CountStatus(days, status) ==
    Cardinality({ i \in 1..Len(days) : days[i].status = status })

\* lines 223-233
MkReport(id, mo, yr, days) ==
    [employeeId |-> id, month |-> mo, year |-> yr,
     summary |-> [totalDaysWithRecords |-> Len(days),
                  totalOutMissingDays |-> CountStatus(days, "OUT MISSING"),
                  totalNormalDays |-> CountStatus(days, "NORMAL")],
     dailyRecords |-> days]

\* nothing returned yet
NoReport == MkReport("", 0, 0, <<>>)

-----------------------------------------------------------------------------
(* analyzeAttendance as a function of its arguments: the same steps as the  *)
(* state machine below, folded over the records, for the properties that    *)
(* compare the results of two calls                                         *)

\* lines 71-73: the locals of the pass over the records recs
PassStart(recs) ==
    [recs |-> recs, lastValid |-> 0, currentIn |-> 0, sessions |-> <<>>]

\* lines 75-130: one turn of allEmployeeRecords.forEach, on record i
Visit(st, i) ==
    LET rec == st.recs[i] IN
    IF st.lastValid # 0 /\ IsDoubleTap(rec, st.recs[st.lastValid])
    THEN [st EXCEPT !.recs[i].isDuplicate = TRUE,
                    !.recs[i].reportDate = st.recs[st.lastValid].reportDate]
    ELSE IF IsIn(rec)
    THEN [st EXCEPT !.recs[i].isDuplicate = FALSE,
                    !.recs[i].reportDate = rec.date,
                    !.lastValid = i,
                    !.sessions = IF st.currentIn # 0
                                 THEN Append(@, OutMissingSession(st.recs, st.currentIn))
                                 ELSE @,
                    !.currentIn = i]
    ELSE IF st.currentIn # 0
    THEN [st EXCEPT !.recs[i].isDuplicate = FALSE,
                    !.recs[i].reportDate = st.recs[st.currentIn].date,
                    !.lastValid = i,
                    !.sessions = Append(@, NormalSession(st.recs, st.currentIn, i)),
                    !.currentIn = 0]
    ELSE [st EXCEPT !.recs[i].isDuplicate = FALSE,
                    !.recs[i].reportDate = PrevDay(rec.date),
                    !.lastValid = i,
                    !.sessions = Append(@, NoInSession(st.recs, i))]

RECURSIVE VisitFrom(_, _)
VisitFrom(st, i) ==
    IF i > Len(st.recs) THEN st ELSE VisitFrom(Visit(st, i), i + 1)

\* lines 132-140
CloseHeld(st) ==
    IF st.currentIn # 0
    THEN [st EXCEPT !.sessions = Append(@, OutMissingSession(st.recs, st.currentIn))]
    ELSE st

\* lines 70-233: the reports the call can return once line 68 has left the
\* records in the order sorted
ReportsOf(sorted, id, mo, yr, up) ==
    LET st == CloseHeld(VisitFrom(PassStart(sorted), 1))
        fs == FilterSessions(st.sessions, mo, yr)
    IN  { MkReport(id, mo, yr, dailyRecords) :
             dailyRecords \in DailyRecords(SortedDates(fs), fs, st.recs, up) }

\* lines 46-234: the reports analyzeAttendance(lines, id, mo, yr) can return
\* (one, unless a record has an Invalid Date)
AnalyzeAttendance(lines, id, mo, yr, up) ==
    UNION { ReportsOf(sorted, id, mo, yr, up) :
               sorted \in SortOutcomes(GatherRecords(lines, id)) }

-----------------------------------------------------------------------------
(* Employee discovery: getEmployeeIds (src/src/lib/attendance.js, 6-24) *)

\* the characters of an identifier: a digit is its value, the letters A and
\* B are 11 and 12 (localeCompare puts the digits before the letters)
LetterA == 11
LetterB == 12

Digits == 0..9

IdText ==
    [ id \in { "", "7", "007", "9", "10", "101", "102", "1010", "A7", "B2" } |->
        CASE id = ""     -> <<>>
          [] id = "7"    -> <<7>>
          [] id = "007"  -> <<0, 0, 7>>
          [] id = "9"    -> <<9>>
          [] id = "10"   -> <<1, 0>>
          [] id = "101"  -> <<1, 0, 1>>
          [] id = "102"  -> <<1, 0, 2>>
          [] id = "1010" -> <<1, 0, 1, 0>>
          [] id = "A7"   -> <<LetterA, 7>>
          [] id = "B2"   -> <<LetterB, 2>> ]

\* the leading digits of a text
RECURSIVE LeadingDigits(_)
LeadingDigits(t) ==
    IF t = <<>> \/ t[1] \notin Digits THEN <<>>
    ELSE <<t[1]>> \o LeadingDigits(Tail(t))

RECURSIVE DecimalValue(_)
DecimalValue(t) ==
    IF t = <<>> THEN 0 ELSE DecimalValue(SubSeq(t, 1, Len(t) - 1)) * 10 + t[Len(t)]

\* parseInt(a): the value of the leading digits, NaN when there is none
ParseInt(id) ==
    LET d == LeadingDigits(IdText[id])
    IN  IF d = <<>> THEN NaN ELSE DecimalValue(d)

\* a.localeCompare(b): -1, 0 or 1, by the first character that differs; a
\* text sorts after its own beginnings
RECURSIVE CompareText(_, _)
CompareText(s, t) ==
    IF s = <<>> THEN (IF t = <<>> THEN 0 ELSE -1)
    ELSE IF t = <<>> THEN 1
    ELSE IF s[1] < t[1] THEN -1
    ELSE IF s[1] > t[1] THEN 1
    ELSE CompareText(Tail(s), Tail(t))

LocaleCompare(a, b) == CompareText(IdText[a], IdText[b])

\* the comparator that compares every pair of identifiers as texts
CompareIds_AsText(a, b) == LocaleCompare(a, b)

\* lines 17-23
CompareIds(a, b) ==
    IF ~IsNaN(ParseInt(a)) /\ ~IsNaN(ParseInt(b))
    THEN ParseInt(a) - ParseInt(b)
    ELSE LocaleCompare(a, b)

\* lines 10-15: the Set after the forEach, in the order of insertion
RECURSIVE CollectIds(_)
CollectIds(lines) ==
    IF lines = <<>> THEN <<>>
    ELSE LET before == CollectIds(SubSeq(lines, 1, Len(lines) - 1))
             first  == lines[Len(lines)].id
         IN  IF first # "" /\ \A i \in 1..Len(before) : before[i] # first
             THEN Append(before, first)
             ELSE before

\* Array.prototype.sort is stable: an element goes after those that do not
\* compare greater than it
RECURSIVE InsertId(_, _)
InsertId(sorted, a) ==
    LET n == Len(sorted)
    IN  IF n = 0 \/ CompareIds(sorted[n], a) <= 0
        THEN Append(sorted, a)
        ELSE Append(InsertId(SubSeq(sorted, 1, n - 1), a), sorted[n])

RECURSIVE SortIdList(_)
SortIdList(s) ==
    IF s = <<>> THEN <<>>
    ELSE InsertId(SortIdList(SubSeq(s, 1, Len(s) - 1)), s[Len(s)])

\* a log for employee discovery: lines of several employees, the same
\* employee twice, a blank line, a line of one field only
IdLines ==
    { MkLine(id, Mar01, MkTime(9, 0, 0), 0) :
         id \in { "7", "007", "9", "10", "101", "A7", "B2" } }
       \cup { [id |-> "", nf |-> 1, date |-> NoDate, time |-> 0, io |-> 0],
              [id |-> "102", nf |-> 1, date |-> NoDate, time |-> 0, io |-> 0] }

IdLogs == SeqsUpTo(IdLines, MaxLines)

-----------------------------------------------------------------------------
(* The page component (src/unnamed/part_001) *)

Mar02 == MkDate(2024, 3, 2)

\* a File object: its name and the text that file.text() resolves to
MkFile(name, text) == [name |-> name, text |-> text]

\* null
NoFile == MkFile("", <<>>)

\* a log of two employees, one with two days in March 2024 (the first with
\* a NORMAL session and then an IN that stays open), the other with one
\* OUT without its IN; and a log of one employee
PageFiles ==
    { MkFile("march.dat",
             << MkLine("101", Mar01, MkTime(9, 0, 0), 0),
                MkLine("101", Mar01, MkTime(12, 0, 0), 1),
                MkLine("101", Mar01, MkTime(18, 0, 0), 0),
                MkLine("101", Mar02, MkTime(9, 0, 0), 0),
                MkLine("102", Mar02, MkTime(9, 0, 0), 1) >>),
      MkFile("desk.dat",
             << MkLine("9", Mar01, MkTime(9, 0, 0), 0) >>) }

\* a log of two employees of whom only one has a scan attributed to
\* February 2024: an OUT of the first of March without its IN
TabFiles ==
    { MkFile("night.dat",
             << MkLine("101", Mar01, MkTime(9, 0, 0), 0),
                MkLine("102", Mar01, MkTime(9, 0, 0), 1),
                MkLine("102", Mar02, MkTime(9, 0, 0), 1) >>) }

\* the values of the month and of the year selector
PageMonths == {2, 3}

PageYears == {2023, 2024}

\* no processData is waiting for the text of its file
NoProcessing == [file |-> NoFile, selectedEmployees |-> <<>>, month |-> 0, year |-> 0]

\* no file has been handed to the browser by the last handler
NoDownload == [kind |-> "", name |-> <<>>, files |-> <<>>]

\* what the table filter is set to: nothing (""), or the text of a date
NoFilter == NoDate

TableFilters == {NoFilter, Mar01}

\* lines 34-47: the state at the first render (month and year are those of
\* the day), with the reads of uploaded files and the processData that are
\* waiting for a text, and the file the last handler handed to the browser
FirstRenderIn(mo, yr) ==
    [ file               |-> NoFile,
      reads              |-> {},
      availableEmployees |-> <<>>,
      selectedEmployees  |-> <<>>,
      month              |-> mo,
      year               |-> yr,
      processing         |-> NoProcessing,
      results            |-> <<>>,
      activeResultIndex  |-> 0,
      error              |-> "",
      tableFilter        |-> NoFilter,
      selectedRows       |-> <<>>,
      download           |-> NoDownload ]

\* the first render on a day of March 2024
FirstRender == FirstRenderIn(3, 2024)

GetEmployeeIds(text) == SortIdList(CollectIds(text))

Includes(s, x) == \E i \in 1..Len(s) : s[i] = x

Without(s, x) == SelectSeq(s, LAMBDA y : y # x)

\* prev.includes(x) ? prev.filter(item => item !== x) : [...prev, x]
Toggle(prev, x) == IF Includes(prev, x) THEN Without(prev, x) ELSE Append(prev, x)

\* lines 91-93: the arrays selectedEmployees.map(...).filter(...) can be
RECURSIVE AllResults(_, _, _, _)
AllResults(text, employees, mo, yr) ==
    IF employees = <<>> THEN { <<>> }
    ELSE { (IF res.dailyRecords # <<>> THEN <<res>> ELSE <<>>) \o rest :
              res \in UNION { AnalyzeAttendance(text, Head(employees), mo, yr, up) :
                                 up \in BOOLEAN },
              rest \in AllResults(text, Tail(employees), mo, yr) }

\* the reports of every file, selection, month and year of the model
PageResults ==
    [ f \in PageFiles \cup TabFiles, mo \in PageMonths, yr \in PageYears |->
        LET avail == GetEmployeeIds(f.text)
        IN  [ sel \in UNION { [1..n -> { avail[i] : i \in 1..Len(avail) }] :
                                 n \in 0..Len(avail) } |->
                 AllResults(f.text, sel, mo, yr) ] ]

\* results[activeResultIndex] is an element of results
HasResult(p) == p.activeResultIndex < Len(p.results)

\* line 196: results[activeResultIndex]
Result(p) == p.results[p.activeResultIndex + 1]

\* lines 198-205: row.date.includes(query), and the names of a day of the
\* week hold no digit
FilteredDailyRecords(p) ==
    IF HasResult(p)
    THEN SelectSeq(Result(p).dailyRecords,
                   LAMBDA row : p.tableFilter = NoFilter \/ row.date = p.tableFilter)
    ELSE <<>>

\* new Date(r.date).toLocaleDateString("en-US", {weekday: "short"}): 0 is
\* Sun; the text is read as midnight UTC, which west of Greenwich is the
\* evening of the day before
WeekdayShort(date, west) ==
    (DayNumber(date) + (IF west THEN 3 ELSE 4)) % 7

\* RecordsToExport in which the table filter comes before the selected rows
RecordsToExport_FilterFirst(p) ==
    IF p.tableFilter # NoFilter
    THEN FilteredDailyRecords(p)
    ELSE IF p.selectedRows # <<>>
    THEN SelectSeq(Result(p).dailyRecords, LAMBDA r : Includes(p.selectedRows, r.date))
    ELSE Result(p).dailyRecords

\* lines 212-219
RecordsToExport(p) ==
    IF p.selectedRows # <<>>
    THEN SelectSeq(Result(p).dailyRecords, LAMBDA r : Includes(p.selectedRows, r.date))
    ELSE IF p.tableFilter # NoFilter
    THEN FilteredDailyRecords(p)
    ELSE Result(p).dailyRecords

\* the keys of a row of getExportData, in the order they are written
ExportKeys ==
    << "Employee ID", "Date", "Day", "IN Time", "OUT Time", "Scans", "Hours", "Status" >>

\* a row that takes its status from the times it shows
ExportRow_StatusFromTimes(res, r, west) ==
    ("Employee ID" :> res.employeeId) @@ ("Date" :> r.date)
       @@ ("Day" :> WeekdayShort(r.date, west))
       @@ ("IN Time" :> r.inTime) @@ ("OUT Time" :> r.outTime)
       @@ ("Scans" :> r.scanCount) @@ ("Hours" :> r.totalHours)
       @@ ("Status" :> IF r.outTime = Dash THEN "OUT MISSING"
                       ELSE IF r.inTime = Dash THEN "NO IN RECORD" ELSE "NORMAL")

\* lines 221-230
ExportRow(res, r, west) ==
    ("Employee ID" :> res.employeeId) @@ ("Date" :> r.date)
       @@ ("Day" :> WeekdayShort(r.date, west))
       @@ ("IN Time" :> r.inTime) @@ ("OUT Time" :> r.outTime)
       @@ ("Scans" :> r.scanCount) @@ ("Hours" :> r.totalHours)
       @@ ("Status" :> r.status)

\* lines 207-231
GetExportData(p, west) ==
    IF ~HasResult(p) THEN <<>>
    ELSE LET recordsToExport == RecordsToExport(p)
         IN  [ i \in 1..Len(recordsToExport) |->
                  ExportRow(Result(p), recordsToExport[i], west) ]

\* a table: the names of its columns and its rows, each the values of an
\* object under those names
Table(fields, objects) ==
    [ header |-> fields,
      rows   |-> [ i \in 1..Len(objects) |->
                     [ k \in 1..Len(fields) |-> objects[i][fields[k]] ] ] ]

\* lines 130-132
CsvFields ==
    << "employeeId", "date", "day", "inTime", "outTime", "totalHours", "scanCount", "status" >>

\* lines 119-128
CsvRow(r) ==
    ("employeeId" :> r["Employee ID"]) @@ ("date" :> r["Date"]) @@ ("day" :> r["Day"])
       @@ ("inTime" :> r["IN Time"]) @@ ("outTime" :> r["OUT Time"])
       @@ ("totalHours" :> r["Hours"]) @@ ("scanCount" :> r["Scans"])
       @@ ("status" :> r["Status"])

\* lines 165-167
ZipFields ==
    << "employeeId", "date", "inTime", "outTime", "totalHours", "scanCount", "status" >>

\* lines 155-163
ZipRow(res, r) ==
    ("employeeId" :> res.employeeId) @@ ("date" :> r.date)
       @@ ("inTime" :> r.inTime) @@ ("outTime" :> r.outTime)
       @@ ("totalHours" :> r.totalHours) @@ ("scanCount" :> r.scanCount)
       @@ ("status" :> r.status)

\* `Attendance_${id}_${month}_${year}` and its extension
FileName(id, mo, yr, ext) == << "Attendance", id, mo, yr, ext >>

\* a file of a download: its name and its table
NamedTable(name, table) ==
    [name |-> name, header |-> table.header, rows |-> table.rows]

-----------------------------------------------------------------------------
(* The two-pass variant of analyzeAttendance (src/src/app/layout.js) *)

\* MarkDuplicates that compares a record with the record before it, double
\* tap or not
MarkDuplicates_AgainstPrevious(recs) ==
    [ i \in 1..Len(recs) |->
        [recs[i] EXCEPT !.isDuplicate = i > 1 /\ IsDoubleTap(recs[i], recs[i - 1])] ]

\* lines 106-119: one turn of the first forEach, on record i; st holds the
\* records and lastValid
MarkVisit(st, i) ==
    IF st.lastValid # 0 /\ IsDoubleTap(st.recs[i], st.recs[st.lastValid])
    THEN [st EXCEPT !.recs[i].isDuplicate = TRUE]
    ELSE [st EXCEPT !.recs[i].isDuplicate = FALSE, !.lastValid = i]

RECURSIVE MarkFrom(_, _)
MarkFrom(st, i) ==
    IF i > Len(st.recs) THEN st ELSE MarkFrom(MarkVisit(st, i), i + 1)

\* lines 105-119: the records with isDuplicate set
MarkDuplicates(recs) == MarkFrom([recs |-> recs, lastValid |-> 0], 1).recs

\* line 121: the records that are no double tap (as indices of the records)
UniqueRecords(recs) ==
    SelectSeq([i \in 1..Len(recs) |-> i], LAMBDA i : ~recs[i].isDuplicate)

\* a session of the variant: it has no isNextDayOut
MkSession2(date, in, out, status) ==
    [date |-> date, in |-> in, out |-> out, status |-> status]

\* lines 127-159: one turn of the second forEach, on the record of index r
PairVisit(st, recs, r) ==
    IF recs[r].inOutStatus = 0
    THEN [st EXCEPT
             !.sessions = IF st.currentIn # 0
                          THEN Append(@, MkSession2(recs[st.currentIn].date,
                                                    st.currentIn, 0, "OUT MISSING"))
                          ELSE @,
             !.currentIn = r]
    ELSE IF st.currentIn # 0
    THEN [st EXCEPT
             !.sessions = Append(@, MkSession2(recs[st.currentIn].date,
                                               st.currentIn, r, "NORMAL")),
             !.currentIn = 0]
    ELSE [st EXCEPT
             !.sessions = Append(@, MkSession2(recs[r].date, 0, r, "NO IN RECORD"))]

RECURSIVE PairFrom(_, _, _, _)
PairFrom(st, recs, unique, k) ==
    IF k > Len(unique) THEN st
    ELSE PairFrom(PairVisit(st, recs, unique[k]), recs, unique, k + 1)

\* lines 162-169
CloseHeld2(st, recs) ==
    IF st.currentIn # 0
    THEN [st EXCEPT !.sessions = Append(@, MkSession2(recs[st.currentIn].date,
                                                      st.currentIn, 0, "OUT MISSING"))]
    ELSE st

\* lines 105-169: the records and the sessions of the variant, once line
\* 102 has left the records in the order sorted
TwoPass(sorted) ==
    LET recs == MarkDuplicates(sorted)
        st   == CloseHeld2(PairFrom([currentIn |-> 0, sessions |-> <<>>],
                                    recs, UniqueRecords(recs), 1), recs)
    IN  [recs |-> recs, sessions |-> st.sessions]

-----------------------------------------------------------------------------
(* The POST handler (src/unnamed/part_000) *)

\* a value of the body of a request: undefined (the key is missing), a
\* string, a number, or a text (a string of lines)
Undefined(value) == [kind |-> "undefined", value |-> value]

String(value) == [kind |-> "string", value |-> value]

Text(lines) == [kind |-> "text", value |-> lines]

Number(value) == [kind |-> "number", value |-> value]

\* !v
IsFalsy(v) ==
    \/ v.kind = "undefined"
    \/ v.kind = "string" /\ v.value = ""
    \/ v.kind = "text" /\ v.value = <<>>
    \/ v.kind = "number" /\ v.value = 0

\* the logs a request sends: one whose pass meets an IN, a double tap, the
\* OUT of the IN and an OUT without IN, one of another employee, and one
\* with a time that does not parse
ApiLogs ==
    { << MkLine("101", Feb29, MkTime(23, 10, 0), 0),
         MkLine("101", Feb29, MkTime(23, 50, 30), 0),
         MkLine("101", Mar01, MkTime(0, 10, 0), 1),
         MkLine("101", Mar01, MkTime(9, 0, 0), 1) >>,
      << MkLine("102", Mar01, MkTime(9, 0, 0), 0) >>,
      << MkLine("101", Mar01, MkTime(25, 0, 0), 1),
         MkLine("101", Feb29, MkTime(23, 10, 0), 0) >> }

\* the bodies request.json() can resolve to: an object with or without
\* each of the four keys; fileText can be the empty string, a text or a
\* number, employeeId the empty string, month the number 0
ObjectBodies ==
    [ kind       : { "object" },
      fileText   : { Undefined(<<>>), Text(<<>>), Number(5) }
                      \cup { Text(log) : log \in ApiLogs },
      employeeId : { Undefined(""), String(""), String("101") },
      month      : { Undefined(NaN), Number(0), Number(2) },
      year       : { Undefined(NaN), Number(2024) } ]

\* the JSON text null, and a body that is no JSON (request.json() rejects)
NullBody ==
    [ kind |-> "null", fileText |-> Undefined(<<>>), employeeId |-> Undefined(""),
      month |-> Undefined(NaN), year |-> Undefined(NaN) ]

NoJsonBody == [NullBody EXCEPT !.kind = "no JSON"]

Bodies == ObjectBodies \cup { NullBody, NoJsonBody }

\* no request has arrived
NoRequest == [stage |-> "idle", body |-> NullBody, responses |-> <<>>]

\* the test of line 8 without the year
MissingParameters_NoYear(body) ==
    IsFalsy(body.fileText) \/ IsFalsy(body.employeeId) \/ IsFalsy(body.month)

\* line 8
MissingParameters(body) ==
    \/ IsFalsy(body.fileText)
    \/ IsFalsy(body.employeeId)
    \/ IsFalsy(body.month)
    \/ IsFalsy(body.year)

\* NextResponse.json(body, {status})
JsonResponse(status, body) == [status |-> status, body |-> body]

ErrorBody(message) == [error |-> message]

-----------------------------------------------------------------------------
(* State machine *)

Init ==
    /\ \/ /\ fileText \in Logs
          /\ \E p \in Periods : month = p[1] /\ year = p[2]
       \/ \E c \in ExampleCalls : fileText = c[1] /\ month = c[2] /\ year = c[3]
    /\ employeeId = "101"
    /\ tieUp \in BOOLEAN
    /\ pc = "gather"
    /\ allEmployeeRecords = <<>>
    /\ idx = 0
    /\ lastValid = 0
    /\ currentIn = 0
    /\ sessions = <<>>
    /\ filteredSessions = <<>>
    /\ report = NoReport
    /\ previous = NoCall
    /\ ids = <<>>
    /\ api = NoRequest
    /\ page = FirstRender

\* lines 47-65
Gather ==
    /\ pc = "gather"
    /\ allEmployeeRecords' = GatherRecords(fileText, employeeId)
    /\ pc' = "sort"
    /\ UNCHANGED <<api, ids, page, previous, fileText, employeeId, month, year, tieUp, idx, lastValid,
                   currentIn, sessions, filteredSessions, report>>

\* lines 67-73
Sort ==
    /\ pc = "sort"
    /\ allEmployeeRecords' \in SortOutcomes(allEmployeeRecords)
    /\ pc' = "pair"
    /\ UNCHANGED <<api, ids, page, previous, fileText, employeeId, month, year, tieUp, idx, lastValid,
                   currentIn, sessions, filteredSessions, report>>

\* the record the forEach of line 75 visits next
Visiting == idx + 1

HasNext == pc = "pair" /\ idx < Len(allEmployeeRecords)

DoubleTapNow ==
    /\ lastValid # 0
    /\ IsDoubleTap(allEmployeeRecords[Visiting], allEmployeeRecords[lastValid])

\* MarkDoubleTap that gives the double tap no reportDate
MarkDoubleTap_NoReportDate ==
    /\ HasNext
    /\ DoubleTapNow
    /\ allEmployeeRecords' =
         [allEmployeeRecords EXCEPT ![Visiting].isDuplicate = TRUE]
    /\ idx' = idx + 1
    /\ UNCHANGED <<api, ids, page, previous, fileText, employeeId, month, year, tieUp, pc, lastValid,
                   currentIn, sessions, filteredSessions, report>>

\* MarkDoubleTap after which forEach visits the same record again
MarkDoubleTap_NoAdvance ==
    /\ HasNext
    /\ DoubleTapNow
    /\ allEmployeeRecords' =
         [allEmployeeRecords EXCEPT
            ![Visiting].isDuplicate = TRUE,
            ![Visiting].reportDate = allEmployeeRecords[lastValid].reportDate]
    /\ idx' = idx
    /\ UNCHANGED <<api, ids, page, previous, fileText, employeeId, month, year, tieUp, pc, lastValid,
                   currentIn, sessions, filteredSessions, report>>

\* lines 77-83: the visited record is a double tap
MarkDoubleTap ==
    /\ HasNext
    /\ DoubleTapNow
    /\ allEmployeeRecords' =
         [allEmployeeRecords EXCEPT
            ![Visiting].isDuplicate = TRUE,
            ![Visiting].reportDate = allEmployeeRecords[lastValid].reportDate]
    /\ idx' = idx + 1
    /\ UNCHANGED <<api, ids, page, previous, fileText, employeeId, month, year, tieUp, pc, lastValid,
                   currentIn, sessions, filteredSessions, report>>

\* PairIn that forgets the held IN
PairIn_DropsHeldIn ==
    /\ HasNext
    /\ ~DoubleTapNow
    /\ IsIn(allEmployeeRecords[Visiting])
    /\ lastValid' = Visiting
    /\ sessions' = sessions
    /\ currentIn' = Visiting
    /\ allEmployeeRecords' =
         [allEmployeeRecords EXCEPT
            ![Visiting].isDuplicate = FALSE,
            ![Visiting].reportDate = allEmployeeRecords[Visiting].date]
    /\ idx' = idx + 1
    /\ UNCHANGED <<api, ids, page, previous, fileText, employeeId, month, year, tieUp, pc, filteredSessions, report>>

\* PairIn that takes the new IN as held before it closes the held one
PairIn_AssignsFirst ==
    /\ HasNext
    /\ ~DoubleTapNow
    /\ IsIn(allEmployeeRecords[Visiting])
    /\ lastValid' = Visiting
    /\ sessions' = IF currentIn # 0
                   THEN Append(sessions, OutMissingSession(allEmployeeRecords, Visiting))
                   ELSE sessions
    /\ currentIn' = Visiting
    /\ allEmployeeRecords' =
         [allEmployeeRecords EXCEPT
            ![Visiting].isDuplicate = FALSE,
            ![Visiting].reportDate = allEmployeeRecords[Visiting].date]
    /\ idx' = idx + 1
    /\ UNCHANGED <<api, ids, page, previous, fileText, employeeId, month, year, tieUp, pc, filteredSessions, report>>

\* lines 86-100: a non-duplicate IN
PairIn ==
    /\ HasNext
    /\ ~DoubleTapNow
    /\ IsIn(allEmployeeRecords[Visiting])
    /\ lastValid' = Visiting
    /\ sessions' = IF currentIn # 0
                   THEN Append(sessions, OutMissingSession(allEmployeeRecords, currentIn))
                   ELSE sessions
    /\ currentIn' = Visiting
    /\ allEmployeeRecords' =
         [allEmployeeRecords EXCEPT
            ![Visiting].isDuplicate = FALSE,
            ![Visiting].reportDate = allEmployeeRecords[Visiting].date]
    /\ idx' = idx + 1
    /\ UNCHANGED <<api, ids, page, previous, fileText, employeeId, month, year, tieUp, pc, filteredSessions, report>>

\* PairOutNormal that pairs the OUT with the IN scanned last before it, a
\* double tap included
PairOutNormal_NearestIn ==
    /\ HasNext
    /\ ~DoubleTapNow
    /\ ~IsIn(allEmployeeRecords[Visiting])
    /\ currentIn # 0
    /\ lastValid' = Visiting
    /\ allEmployeeRecords' =
         [allEmployeeRecords EXCEPT
            ![Visiting].isDuplicate = FALSE,
            ![Visiting].reportDate = allEmployeeRecords[currentIn].date]
    /\ sessions' = Append(sessions, NormalSession(allEmployeeRecords, idx, Visiting))
    /\ currentIn' = 0
    /\ idx' = idx + 1
    /\ UNCHANGED <<api, ids, page, previous, fileText, employeeId, month, year, tieUp, pc, filteredSessions, report>>

\* lines 86-87, 101-113: a non-duplicate OUT while an IN is held
PairOutNormal ==
    /\ HasNext
    /\ ~DoubleTapNow
    /\ ~IsIn(allEmployeeRecords[Visiting])
    /\ currentIn # 0
    /\ lastValid' = Visiting
    /\ allEmployeeRecords' =
         [allEmployeeRecords EXCEPT
            ![Visiting].isDuplicate = FALSE,
            ![Visiting].reportDate = allEmployeeRecords[currentIn].date]
    /\ sessions' = Append(sessions, NormalSession(allEmployeeRecords, currentIn, Visiting))
    /\ currentIn' = 0
    /\ idx' = idx + 1
    /\ UNCHANGED <<api, ids, page, previous, fileText, employeeId, month, year, tieUp, pc, filteredSessions, report>>

\* lines 86-87, 114-128: a non-duplicate OUT while no IN is held
PairOutOrphan ==
    /\ HasNext
    /\ ~DoubleTapNow
    /\ ~IsIn(allEmployeeRecords[Visiting])
    /\ currentIn = 0
    /\ lastValid' = Visiting
    /\ allEmployeeRecords' =
         [allEmployeeRecords EXCEPT
            ![Visiting].isDuplicate = FALSE,
            ![Visiting].reportDate = PrevDay(allEmployeeRecords[Visiting].date)]
    /\ sessions' = Append(sessions, NoInSession(allEmployeeRecords, Visiting))
    /\ idx' = idx + 1
    /\ UNCHANGED <<api, ids, page, previous, fileText, employeeId, month, year, tieUp, pc, currentIn,
                   filteredSessions, report>>

\* EndOfStream without the closing of the held IN
EndOfStream_NoClose ==
    /\ pc = "pair"
    /\ idx = Len(allEmployeeRecords)
    /\ sessions' = sessions
    /\ pc' = "filter"
    /\ UNCHANGED <<api, ids, page, previous, fileText, employeeId, month, year, tieUp, allEmployeeRecords, idx,
                   lastValid, currentIn, filteredSessions, report>>

\* lines 132-140
EndOfStream ==
    /\ pc = "pair"
    /\ idx = Len(allEmployeeRecords)
    /\ sessions' = IF currentIn # 0
                   THEN Append(sessions, OutMissingSession(allEmployeeRecords, currentIn))
                   ELSE sessions
    /\ pc' = "filter"
    /\ UNCHANGED <<api, ids, page, previous, fileText, employeeId, month, year, tieUp, allEmployeeRecords, idx,
                   lastValid, currentIn, filteredSessions, report>>

\* lines 142-146
Filter ==
    /\ pc = "filter"
    /\ filteredSessions' = FilterSessions(sessions, month, year)
    /\ pc' = "aggregate"
    /\ UNCHANGED <<api, ids, page, previous, fileText, employeeId, month, year, tieUp, allEmployeeRecords, idx,
                   lastValid, currentIn, sessions, report>>

\* lines 148-233
Aggregate ==
    /\ pc = "aggregate"
    /\ \E dailyRecords \in DailyRecords(SortedDates(filteredSessions),
                                         filteredSessions, allEmployeeRecords, tieUp) :
          report' = MkReport(employeeId, month, year, dailyRecords)
    /\ pc' = "done"
    /\ UNCHANGED <<api, ids, page, previous, fileText, employeeId, month, year, tieUp, allEmployeeRecords, idx,
                   lastValid, currentIn, sessions, filteredSessions>>

Next ==
    \/ Gather
    \/ Sort
    \/ MarkDoubleTap
    \/ PairIn
    \/ PairOutNormal
    \/ PairOutOrphan
    \/ EndOfStream
    \/ Filter
    \/ Aggregate

\* the calls on the logs of LongLogs
InitLong ==
    /\ fileText \in LongLogs
    /\ \E p \in Periods : month = p[1] /\ year = p[2]
    /\ employeeId = "101"
    /\ tieUp \in BOOLEAN
    /\ pc = "gather"
    /\ allEmployeeRecords = <<>>
    /\ idx = 0
    /\ lastValid = 0
    /\ currentIn = 0
    /\ sessions = <<>>
    /\ filteredSessions = <<>>
    /\ report = NoReport
    /\ previous = NoCall
    /\ ids = <<>>
    /\ api = NoRequest
    /\ page = FirstRender

SpecLong == InitLong /\ [][Next]_vars

Spec == Init /\ [][Next]_vars

\* the calls on the logs of BaseLogs
InitBase ==
    /\ fileText \in BaseLogs
    /\ \E p \in Periods : month = p[1] /\ year = p[2]
    /\ employeeId = "101"
    /\ tieUp \in BOOLEAN
    /\ pc = "gather"
    /\ allEmployeeRecords = <<>>
    /\ idx = 0
    /\ lastValid = 0
    /\ currentIn = 0
    /\ sessions = <<>>
    /\ filteredSessions = <<>>
    /\ report = NoReport
    /\ previous = NoCall
    /\ ids = <<>>
    /\ api = NoRequest
    /\ page = FirstRender

SpecBase == InitBase /\ [][Next]_vars

\* the calls on the logs of MonthStartLogs
InitMonths ==
    /\ fileText \in MonthStartLogs
    /\ \E p \in MonthStartPeriods : month = p[1] /\ year = p[2]
    /\ employeeId = "101"
    /\ tieUp \in BOOLEAN
    /\ pc = "gather"
    /\ allEmployeeRecords = <<>>
    /\ idx = 0
    /\ lastValid = 0
    /\ currentIn = 0
    /\ sessions = <<>>
    /\ filteredSessions = <<>>
    /\ report = NoReport
    /\ previous = NoCall
    /\ ids = <<>>
    /\ api = NoRequest
    /\ page = FirstRender

SpecMonths == InitMonths /\ [][Next]_vars

\* an IN, an OUT of the next day and a line of another employee
FairLines ==
    { MkLine("101", Feb29, MkTime(23, 10, 0), 0),
      MkLine("101", Mar01, MkTime(0, 10, 0), 1),
      MkLine("102", Mar01, MkTime(9, 0, 0), 0) }

FairLogs == SeqsUpTo(FairLines, MaxLines)

\* before the call: nothing is computed yet
Idle ==
    /\ pc = "idle"
    /\ fileText = <<>>
    /\ employeeId = ""
    /\ month = 0
    /\ year = 0
    /\ tieUp = FALSE
    /\ allEmployeeRecords = <<>>
    /\ idx = 0
    /\ lastValid = 0
    /\ currentIn = 0
    /\ sessions = <<>>
    /\ filteredSessions = <<>>
    /\ report = NoReport
    /\ previous = NoCall
    /\ ids = <<>>
    /\ api = NoRequest
    /\ page = FirstRender

\* line 46: the caller invokes analyzeAttendance on a log made of these lines
Invoke ==
    /\ pc = "idle"
    /\ fileText' \in FairLogs
    /\ \E p \in Periods : month' = p[1] /\ year' = p[2]
    /\ employeeId' = "101"
    /\ tieUp' \in BOOLEAN
    /\ pc' = "gather"
    /\ UNCHANGED <<api, ids, page, previous, allEmployeeRecords, idx, lastValid, currentIn,
                   sessions, filteredSessions, report>>

NextFair == Invoke \/ Next

\* the call runs to completion: analyzeAttendance is synchronous, nothing
\* suspends it between two of its statements
FairSpec == Idle /\ [][NextFair]_vars /\ WF_vars(NextFair)

\* the first call of a session of the application
InitCalls ==
    /\ \E c \in CallArgs :
          fileText = c[1] /\ employeeId = c[2] /\ month = c[3] /\ year = c[4]
    /\ tieUp \in BOOLEAN
    /\ pc = "gather"
    /\ allEmployeeRecords = <<>>
    /\ idx = 0
    /\ lastValid = 0
    /\ currentIn = 0
    /\ sessions = <<>>
    /\ filteredSessions = <<>>
    /\ report = NoReport
    /\ previous = NoCall
    /\ ids = <<>>
    /\ api = NoRequest
    /\ page = FirstRender

\* Call in which sessions is not a local of the call but outlives it
Call_KeepsSessions ==
    /\ pc = "done"
    /\ \E c \in CallArgs :
          fileText' = c[1] /\ employeeId' = c[2] /\ month' = c[3] /\ year' = c[4]
    /\ previous' = <<fileText, employeeId, month, year>>
    /\ pc' = "gather"
    /\ allEmployeeRecords' = <<>>
    /\ idx' = 0
    /\ lastValid' = 0
    /\ currentIn' = 0
    /\ sessions' = sessions
    /\ filteredSessions' = <<>>
    /\ report' = NoReport
    /\ UNCHANGED <<tieUp, ids, page, api>>

\* lines 46-48, 71-73, 155-157: the next call, after the return of this one
\* (the function is synchronous): every array and variable the function
\* works on is a local, made anew at each call
Call ==
    /\ pc = "done"
    /\ \E c \in CallArgs :
          fileText' = c[1] /\ employeeId' = c[2] /\ month' = c[3] /\ year' = c[4]
    /\ previous' = <<fileText, employeeId, month, year>>
    /\ pc' = "gather"
    /\ allEmployeeRecords' = <<>>
    /\ idx' = 0
    /\ lastValid' = 0
    /\ currentIn' = 0
    /\ sessions' = <<>>
    /\ filteredSessions' = <<>>
    /\ report' = NoReport
    /\ UNCHANGED <<tieUp, ids, page, api>>

NextCalls == Next \/ Call

SpecCalls == InitCalls /\ [][NextCalls]_vars

\* a call of getEmployeeIds on a log
InitIds ==
    /\ fileText \in IdLogs
    /\ employeeId = ""
    /\ month = 0
    /\ year = 0
    /\ tieUp = FALSE
    /\ pc = "scan"
    /\ allEmployeeRecords = <<>>
    /\ idx = 0
    /\ lastValid = 0
    /\ currentIn = 0
    /\ sessions = <<>>
    /\ filteredSessions = <<>>
    /\ report = NoReport
    /\ previous = NoCall
    /\ ids = <<>>
    /\ api = NoRequest
    /\ page = FirstRender

\* lines 7-15
ScanLines ==
    /\ pc = "scan"
    /\ ids' = CollectIds(fileText)
    /\ pc' = "sortIds"
    /\ UNCHANGED <<api, page, previous, fileText, employeeId, month, year, tieUp,
                   allEmployeeRecords, idx, lastValid, currentIn, sessions,
                   filteredSessions, report>>

\* lines 17-23
SortIds ==
    /\ pc = "sortIds"
    /\ ids' = SortIdList(ids)
    /\ pc' = "listed"
    /\ UNCHANGED <<api, page, previous, fileText, employeeId, month, year, tieUp,
                   allEmployeeRecords, idx, lastValid, currentIn, sessions,
                   filteredSessions, report>>

NextIds == ScanLines \/ SortIds

SpecIds == InitIds /\ [][NextIds]_vars

\* the variables of analyzeAttendance, of getEmployeeIds and of the POST
\* handler
callVars == <<fileText, employeeId, month, year, tieUp, pc, allEmployeeRecords, idx,
              lastValid, currentIn, sessions, filteredSessions, report, previous, ids,
              api>>

\* the page as a handler that is no exporter finds it: the file of the last
\* export has been handed over
Handled(p) == [p EXCEPT !.download = NoDownload]

\* lines 49-53: a file is chosen; its text is asked for
HandleFileUpload ==
    /\ \E f \in PageFiles :
          page' = [Handled(page) EXCEPT !.file = f, !.error = "",
                                        !.reads = @ \cup {f}]
    /\ UNCHANGED callVars

\* lines 56-59: the text of an uploaded file arrives
FileRead ==
    /\ \E f \in page.reads :
          page' = [Handled(page) EXCEPT
                      !.reads = @ \ {f},
                      !.availableEmployees = GetEmployeeIds(f.text),
                      !.selectedEmployees = <<>>]
    /\ UNCHANGED callVars

\* lines 66-70
ToggleEmployeeSelection ==
    /\ \E i \in 1..Len(page.availableEmployees) :
          page' = [Handled(page) EXCEPT
                      !.selectedEmployees = Toggle(@, page.availableEmployees[i])]
    /\ UNCHANGED callVars

\* lines 72-78
SelectAllEmployees ==
    /\ page.availableEmployees # <<>>
    /\ page' = [Handled(page) EXCEPT
                   !.selectedEmployees =
                       IF Len(page.selectedEmployees) = Len(page.availableEmployees)
                       THEN <<>> ELSE page.availableEmployees]
    /\ UNCHANGED callVars

\* line 389
SetMonth ==
    /\ \E mo \in PageMonths : page' = [Handled(page) EXCEPT !.month = mo]
    /\ UNCHANGED callVars

\* line 406
SetYear ==
    /\ \E yr \in PageYears : page' = [Handled(page) EXCEPT !.year = yr]
    /\ UNCHANGED callVars

\* lines 80-94: the button is disabled while isProcessing; the handler
\* works on the file, the selection, the month and the year of the render
\* it was made in
ProcessData ==
    /\ page.processing = NoProcessing
    /\ page' =
          IF page.file = NoFile
          THEN [Handled(page) EXCEPT !.error = "Please upload an attendance log file."]
          ELSE IF page.selectedEmployees = <<>>
          THEN [Handled(page) EXCEPT !.error = "Please select at least one Employee ID."]
          ELSE [Handled(page) EXCEPT
                   !.error = "",
                   !.processing = [file |-> page.file,
                                   selectedEmployees |-> page.selectedEmployees,
                                   month |-> page.month, year |-> page.year]]
    /\ UNCHANGED callVars

\* ProcessDataRead that leaves the tab where it is
ProcessDataRead_KeepsIndex ==
    /\ page.processing # NoProcessing
    /\ LET c == page.processing IN
       \E allResults \in PageResults[c.file, c.month, c.year][c.selectedEmployees] :
          page' = [Handled(page) EXCEPT
                      !.error = IF allResults = <<>>
                                THEN "No records found for selected employees in the given period."
                                ELSE @,
                      !.results = allResults,
                      !.processing = NoProcessing]
    /\ UNCHANGED callVars

\* lines 95-106: the text has arrived
ProcessDataRead ==
    /\ page.processing # NoProcessing
    /\ LET c == page.processing IN
       \E allResults \in PageResults[c.file, c.month, c.year][c.selectedEmployees] :
          page' =
             IF allResults = <<>>
             THEN [Handled(page) EXCEPT
                      !.error = "No records found for selected employees in the given period.",
                      !.results = <<>>,
                      !.processing = NoProcessing]
             ELSE [Handled(page) EXCEPT
                      !.results = allResults,
                      !.activeResultIndex = 0,
                      !.processing = NoProcessing]
    /\ UNCHANGED callVars

\* lines 466-483: the tabs are shown when there are two reports or more
SetActiveResultIndex ==
    /\ Len(page.results) > 1
    /\ \E i \in 0..(Len(page.results) - 1) :
          page' = [Handled(page) EXCEPT !.activeResultIndex = i]
    /\ UNCHANGED callVars

\* line 516: the table and its filter are shown when there is a report
SetTableFilter ==
    /\ page.results # <<>>
    /\ \E q \in TableFilters : page' = [Handled(page) EXCEPT !.tableFilter = q]
    /\ UNCHANGED callVars

\* lines 179-183, 598: the check box of a row of the table
ToggleRowSelection ==
    /\ page.results # <<>>
    /\ LET shown == FilteredDailyRecords(page) IN
       \E i \in 1..Len(shown) :
          page' = [Handled(page) EXCEPT !.selectedRows = Toggle(@, shown[i].date)]
    /\ UNCHANGED callVars

\* [...new Set([...prev, ...dates])]
RECURSIVE AddAll(_, _)
AddAll(prev, dates) ==
    IF dates = <<>> THEN prev
    ELSE AddAll(IF Includes(prev, Head(dates)) THEN prev ELSE Append(prev, Head(dates)),
                Tail(dates))

\* lines 562-569: the check box of the head of the table
ToggleShownRows ==
    /\ page.results # <<>>
    /\ LET shown == FilteredDailyRecords(page)
           allFilteredDates == [i \in 1..Len(shown) |-> shown[i].date]
           areAllSelected ==
               \A i \in 1..Len(shown) : Includes(page.selectedRows, shown[i].date)
       IN  page' = [Handled(page) EXCEPT
                       !.selectedRows =
                          IF areAllSelected
                          THEN SelectSeq(@, LAMBDA d : ~Includes(allFilteredDates, d))
                          ELSE AddAll(@, allFilteredDates)]
    /\ UNCHANGED callVars

\* lines 113-144
DownloadCSV ==
    /\ page.results # <<>>
    /\ HasResult(page)
    /\ \E west \in BOOLEAN :
          LET data == GetExportData(page, west)
              csvData == [i \in 1..Len(data) |-> CsvRow(data[i])]
              name == FileName(Result(page).employeeId, page.month, page.year, "csv")
          IN  page' = [page EXCEPT
                          !.download = [kind |-> "csv", name |-> name,
                                        files |-> << NamedTable(name, Table(CsvFields, csvData)) >>]]
    /\ UNCHANGED callVars

\* lines 233-243
DownloadExcel ==
    /\ \E west \in BOOLEAN :
          LET data == GetExportData(page, west)
              name == FileName(Result(page).employeeId, page.month, page.year, "xlsx")
          IN  /\ data # <<>>
              /\ page' = [page EXCEPT
                             !.download = [kind |-> "xlsx", name |-> name,
                                           files |-> << NamedTable(name, Table(ExportKeys, data)) >>]]
    /\ UNCHANGED callVars

\* lines 245-269: the head is Object.keys of the first row and the body is
\* Object.values of every row
DownloadPDF ==
    /\ \E west \in BOOLEAN :
          LET data == GetExportData(page, west)
              name == FileName(Result(page).employeeId, page.month, page.year, "pdf")
          IN  /\ data # <<>>
              /\ page' = [page EXCEPT
                             !.download = [kind |-> "pdf", name |-> name,
                                           files |-> << NamedTable(name, Table(ExportKeys, data)) >>]]
    /\ UNCHANGED callVars

\* lines 146-177: one file for each report
DownloadAllAsZip ==
    /\ page.results # <<>>
    /\ LET fileOf(res) ==
              NamedTable(FileName(res.employeeId, page.month, page.year, "csv"),
                         Table(ZipFields,
                               [i \in 1..Len(res.dailyRecords) |->
                                   ZipRow(res, res.dailyRecords[i])]))
       IN  page' = [page EXCEPT
                       !.download =
                          [kind  |-> "zip",
                           name  |-> << "Attendance_Reports", page.month, page.year, "zip" >>,
                           files |-> [k \in 1..Len(page.results) |-> fileOf(page.results[k])]]]
    /\ UNCHANGED callVars

\* the page at its first render, on a day of one of the months and years
InitPage ==
    /\ fileText = <<>>
    /\ employeeId = ""
    /\ month = 0
    /\ year = 0
    /\ tieUp = FALSE
    /\ pc = "page"
    /\ allEmployeeRecords = <<>>
    /\ idx = 0
    /\ lastValid = 0
    /\ currentIn = 0
    /\ sessions = <<>>
    /\ filteredSessions = <<>>
    /\ report = NoReport
    /\ previous = NoCall
    /\ ids = <<>>
    /\ api = NoRequest
    /\ \E mo \in PageMonths, yr \in PageYears : page = FirstRenderIn(mo, yr)

NextUploads == HandleFileUpload \/ FileRead \/ ToggleEmployeeSelection \/ SelectAllEmployees

\* the page and its uploads
SpecUploads == InitPage /\ [][NextUploads]_vars

\* the page once a file has been uploaded and read
InitReports ==
    /\ fileText = <<>>
    /\ employeeId = ""
    /\ month = 0
    /\ year = 0
    /\ tieUp = FALSE
    /\ pc = "page"
    /\ allEmployeeRecords = <<>>
    /\ idx = 0
    /\ lastValid = 0
    /\ currentIn = 0
    /\ sessions = <<>>
    /\ filteredSessions = <<>>
    /\ report = NoReport
    /\ previous = NoCall
    /\ ids = <<>>
    /\ api = NoRequest
    /\ \E mo \in PageMonths, yr \in PageYears, f \in PageFiles :
          page = [FirstRenderIn(mo, yr) EXCEPT
                     !.file = f, !.availableEmployees = GetEmployeeIds(f.text)]

NextReports ==
    \/ ToggleEmployeeSelection
    \/ SelectAllEmployees
    \/ SetMonth
    \/ SetYear
    \/ ProcessData
    \/ ProcessDataRead
    \/ SetActiveResultIndex
    \/ SetTableFilter
    \/ ToggleRowSelection
    \/ ToggleShownRows
    \/ DownloadCSV
    \/ DownloadExcel
    \/ DownloadPDF
    \/ DownloadAllAsZip

\* the page from there on: reports are made, looked at and exported
SpecReports == InitReports /\ [][NextReports]_vars

\* the page once one of the files has been uploaded and read
InitTabs ==
    /\ fileText = <<>>
    /\ employeeId = ""
    /\ month = 0
    /\ year = 0
    /\ tieUp = FALSE
    /\ pc = "page"
    /\ allEmployeeRecords = <<>>
    /\ idx = 0
    /\ lastValid = 0
    /\ currentIn = 0
    /\ sessions = <<>>
    /\ filteredSessions = <<>>
    /\ report = NoReport
    /\ previous = NoCall
    /\ ids = <<>>
    /\ api = NoRequest
    /\ \E mo \in PageMonths, yr \in PageYears, f \in PageFiles \cup TabFiles :
          page = [FirstRenderIn(mo, yr) EXCEPT
                     !.file = f, !.availableEmployees = GetEmployeeIds(f.text)]

NextTabs ==
    \/ ToggleEmployeeSelection
    \/ SelectAllEmployees
    \/ SetMonth
    \/ SetYear
    \/ ProcessData
    \/ ProcessDataRead
    \/ SetActiveResultIndex

\* the page from there on: reports are made and their tabs are clicked
SpecTabs == InitTabs /\ [][NextTabs]_vars

\* line 4: a request arrives
Receive ==
    /\ api.stage = "idle"
    /\ \E b \in Bodies : api' = [api EXCEPT !.stage = "reading", !.body = b]
    /\ UNCHANGED <<fileText, employeeId, month, year, tieUp, pc, allEmployeeRecords,
                   idx, lastValid, currentIn, sessions, filteredSessions, report,
                   previous, ids, page>>

\* lines 6 and 17-22: request.json() rejects, or null cannot be destructured
ReadThrows ==
    /\ api.stage = "reading"
    /\ api.body.kind # "object"
    /\ api' = [api EXCEPT
                  !.stage = "responded",
                  !.responses = Append(@, JsonResponse(500, ErrorBody("Internal Server Error")))]
    /\ UNCHANGED <<fileText, employeeId, month, year, tieUp, pc, allEmployeeRecords,
                   idx, lastValid, currentIn, sessions, filteredSessions, report,
                   previous, ids, page>>

\* lines 8-13
RespondMissing ==
    /\ api.stage = "reading"
    /\ api.body.kind = "object"
    /\ MissingParameters(api.body)
    /\ api' = [api EXCEPT
                  !.stage = "responded",
                  !.responses = Append(@, JsonResponse(400, ErrorBody("Missing required parameters")))]
    /\ UNCHANGED <<fileText, employeeId, month, year, tieUp, pc, allEmployeeRecords,
                   idx, lastValid, currentIn, sessions, filteredSessions, report,
                   previous, ids, page>>

\* line 15, and line 46 of attendance.js: analyzeAttendance is called on a
\* text
Analyze ==
    /\ api.stage = "reading"
    /\ api.body.kind = "object"
    /\ ~MissingParameters(api.body)
    /\ api.body.fileText.kind = "text"
    /\ api' = [api EXCEPT !.stage = "analysing"]
    /\ pc = "idle"
    /\ pc' = "gather"
    /\ fileText' = api.body.fileText.value
    /\ employeeId' = api.body.employeeId.value
    /\ month' = api.body.month.value
    /\ year' = api.body.year.value
    /\ tieUp' \in BOOLEAN
    /\ UNCHANGED <<allEmployeeRecords, idx, lastValid, currentIn, sessions,
                   filteredSessions, report, previous, ids, page>>

\* lines 15 and 17-22, and line 47 of attendance.js: fileText.trim is no
\* function of a number
AnalyzeThrows ==
    /\ api.stage = "reading"
    /\ api.body.kind = "object"
    /\ ~MissingParameters(api.body)
    /\ api.body.fileText.kind # "text"
    /\ api' = [api EXCEPT
                  !.stage = "responded",
                  !.responses = Append(@, JsonResponse(500, ErrorBody("Internal Server Error")))]
    /\ UNCHANGED <<fileText, employeeId, month, year, tieUp, pc, allEmployeeRecords,
                   idx, lastValid, currentIn, sessions, filteredSessions, report,
                   previous, ids, page>>

\* line 16: analyzeAttendance has returned
RespondResult ==
    /\ api.stage = "analysing"
    /\ pc = "done"
    /\ api' = [api EXCEPT
                  !.stage = "responded",
                  !.responses = Append(@, JsonResponse(200, report))]
    /\ UNCHANGED <<fileText, employeeId, month, year, tieUp, pc, allEmployeeRecords,
                   idx, lastValid, currentIn, sessions, filteredSessions, report,
                   previous, ids, page>>

NextApi ==
    \/ Receive
    \/ ReadThrows
    \/ RespondMissing
    \/ Analyze
    \/ AnalyzeThrows
    \/ RespondResult
    \/ Next

\* one request to the handler
SpecApi == Idle /\ [][NextApi]_vars

-----------------------------------------------------------------------------
(* Vocabulary of the properties *)

\* the forEach of line 75 has visited every record
PassDone == pc \in {"filter", "aggregate", "done"}

\* IN for InOutStatus 0, OUT for any other integer
Direction(rec) == IF rec.inOutStatus = 0 THEN "IN" ELSE "OUT"

RecordIds == 1..Len(allEmployeeRecords)

SessionIds == 1..Len(sessions)

\* the (session, slot) pairs record i occupies
SlotsOf(i) ==
    { <<j, "in">> : j \in { k \in SessionIds : sessions[k].in = i } }
        \cup { <<j, "out">> : j \in { k \in SessionIds : sessions[k].out = i } }

-----------------------------------------------------------------------------
\* C1: every session the pairer has pushed has at least one of its in/out
\* slots filled; its status is NORMAL exactly when both are filled,
\* OUT MISSING exactly when only in is filled, NO IN RECORD exactly when only
\* out is filled.
C1_SessionSlots ==
    \A j \in SessionIds :
        LET s == sessions[j] IN
        /\ ~(s.in = 0 /\ s.out = 0)
        /\ s.status \in {"NORMAL", "OUT MISSING", "NO IN RECORD"}
        /\ (s.status = "NORMAL") <=> (s.in # 0 /\ s.out # 0)
        /\ (s.status = "OUT MISSING") <=> (s.in # 0 /\ s.out = 0)
        /\ (s.status = "NO IN RECORD") <=> (s.in = 0 /\ s.out # 0)

\* C1 witness: the pass is over and pushed a paired session and a session
\* with an empty slot
C1_Witness ==
    /\ PassDone
    /\ \E j \in SessionIds : sessions[j].status = "NORMAL"
    /\ \E j \in SessionIds : sessions[j].in = 0 \/ sessions[j].out = 0

\* C2: once the pairer has consumed the whole stream (before the period
\* filter), every record not marked isDuplicate occupies exactly one slot of
\* exactly one session, and every record marked isDuplicate occupies none.
C2_RecordSlots ==
    pc = "filter" =>
        \A i \in RecordIds :
            Cardinality(SlotsOf(i)) = IF allEmployeeRecords[i].isDuplicate THEN 0 ELSE 1

\* C2 witness: a finished pass with a duplicate, and with an IN that was
\* closed by a later IN
C2_Witness ==
    /\ pc = "filter"
    /\ \E i \in RecordIds : allEmployeeRecords[i].isDuplicate
    /\ \E j \in SessionIds :
          /\ sessions[j].status = "OUT MISSING"
          /\ j < Len(sessions)

\* C3: a visited record is marked isDuplicate exactly when lastValid exists,
\* has the same direction (IN for InOutStatus 0, OUT for any other integer)
\* and is less than one hour older; otherwise it is marked non-duplicate and
\* becomes lastValid; a duplicate never replaces lastValid.
C3_DoubleTapByDirection ==
    [][ HasNext =>
          LET rec == allEmployeeRecords[Visiting]
              dup == /\ lastValid # 0
                     /\ Direction(rec) = Direction(allEmployeeRecords[lastValid])
                     /\ Less(Minus(rec.dateTime,
                                   allEmployeeRecords[lastValid].dateTime), 3600)
          IN  /\ allEmployeeRecords'[Visiting].isDuplicate = dup
              /\ lastValid' = IF dup THEN lastValid ELSE Visiting ]_vars

-----------------------------------------------------------------------------
\* the visited record is not a double tap (as the code decides it)
VisitsValid == HasNext /\ ~DoubleTapNow

VisitsValidIn == VisitsValid /\ allEmployeeRecords[Visiting].inOutStatus = 0

VisitsValidOut == VisitsValid /\ allEmployeeRecords[Visiting].inOutStatus # 0

\* the sessions of the requested period attributed to the date of a daily record
SessionsOfDay(date) == { j \in SessionIds : sessions[j].date = date }

DayIds == 1..Len(report.dailyRecords)

\* C4 (step): a non-duplicate OUT visited while an IN is held pushes exactly
\* one NORMAL session of the held IN and this OUT, attributed to the IN's
\* date; the OUT's reportDate becomes the IN's date; isNextDayOut is true iff
\* the two calendar dates differ; the held IN is cleared.
C4_PairStep ==
    (VisitsValidOut /\ currentIn # 0) =>
        LET in  == allEmployeeRecords[currentIn]
            out == allEmployeeRecords[Visiting]
        IN  /\ Len(sessions') = Len(sessions) + 1
            /\ SubSeq(sessions', 1, Len(sessions)) = sessions
            /\ LET s == sessions'[Len(sessions')] IN
                  /\ s.status = "NORMAL"
                  /\ s.in = currentIn
                  /\ s.out = Visiting
                  /\ s.date = in.date
                  /\ s.isNextDayOut <=> (out.date # in.date)
            /\ allEmployeeRecords'[Visiting].reportDate = in.date
            /\ currentIn' = 0

\* C4 (day): the flag of a daily record is true iff some session of that day
\* has the flag; the documented cross-midnight log gives one NORMAL day on
\* 2024-01-31 with the flag set and 0.33 hours.
C4_DayFlag ==
    pc = "done" =>
        /\ \A k \in DayIds :
              LET day == report.dailyRecords[k] IN
              day.isNextDayOut <=>
                 \E j \in SessionsOfDay(day.date) : sessions[j].isNextDayOut
        /\ fileText = CrossMidnightExample =>
              /\ Len(report.dailyRecords) = 1
              /\ report.dailyRecords[1].date = MkDate(2024, 1, 31)
              /\ report.dailyRecords[1].status = "NORMAL"
              /\ report.dailyRecords[1].isNextDayOut
              /\ report.dailyRecords[1].totalHours = 33

\* C4: an OUT that meets a held IN closes one NORMAL session on the IN's date,
\* flagged as crossing midnight iff the dates differ, and the daily record
\* carries the flag iff one of its sessions does.
C4_NormalPairing == [][C4_PairStep]_vars /\ []C4_DayFlag

\* C4 witness: a report whose day holds a session closed across midnight
C4_Witness ==
    /\ pc = "done"
    /\ \E k \in DayIds :
          /\ report.dailyRecords[k].isNextDayOut
          /\ \E j \in SessionsOfDay(report.dailyRecords[k].date) :
                /\ sessions[j].status = "NORMAL"
                /\ allEmployeeRecords[sessions[j].out].date
                      # allEmployeeRecords[sessions[j].in].date

\* date b is the calendar day immediately before date a
IsDayBefore(b, a) == IsValidDate(b) /\ DayNumber(b) = DayNumber(a) - 1

\* C5 (step): a non-duplicate OUT visited while no IN is held pushes exactly
\* one NO IN RECORD session with in = null on the day before the OUT's date,
\* sets the OUT's reportDate to that day and leaves no IN held.
C5_OrphanStep ==
    (VisitsValidOut /\ currentIn = 0) =>
        LET out == allEmployeeRecords[Visiting]
        IN  /\ Len(sessions') = Len(sessions) + 1
            /\ SubSeq(sessions', 1, Len(sessions)) = sessions
            /\ LET s == sessions'[Len(sessions')] IN
                  /\ s.status = "NO IN RECORD"
                  /\ s.in = 0
                  /\ s.out = Visiting
                  /\ IsDayBefore(s.date, out.date)
                  /\ allEmployeeRecords'[Visiting].reportDate = s.date
            /\ currentIn' = 0

\* C5 (example): a lone OUT on 2024-03-05 gives one NO IN RECORD session on
\* 2024-03-04
C5_Example ==
    (PassDone /\ fileText = OrphanExample) =>
        /\ Len(sessions) = 1
        /\ sessions[1].status = "NO IN RECORD"
        /\ sessions[1].date = MkDate(2024, 3, 4)

\* C5: an OUT with no IN held becomes a NO IN RECORD session of the previous
\* calendar day.
C5_OrphanOut == [][C5_OrphanStep]_vars /\ []C5_Example

\* C5 witness: an orphan OUT dated on the first of a month was attributed to
\* the last day of the month before
C5_Witness ==
    \E j \in SessionIds :
        /\ sessions[j].status = "NO IN RECORD"
        /\ allEmployeeRecords[sessions[j].out].date = Mar01
        /\ sessions[j].date = Feb29

\* C6: a non-duplicate IN visited while another IN is held closes the held IN
\* as an OUT MISSING session (out = null) on the held IN's date; with no IN
\* held no session is pushed; either way the new IN becomes the held IN and
\* its reportDate is its own date.
C6_InStep ==
    VisitsValidIn =>
        /\ IF currentIn # 0
           THEN /\ Len(sessions') = Len(sessions) + 1
                /\ SubSeq(sessions', 1, Len(sessions)) = sessions
                /\ LET s == sessions'[Len(sessions')] IN
                      /\ s.status = "OUT MISSING"
                      /\ s.in = currentIn
                      /\ s.out = 0
                      /\ s.date = allEmployeeRecords[currentIn].date
           ELSE sessions' = sessions
        /\ currentIn' = Visiting
        /\ allEmployeeRecords'[Visiting].reportDate = allEmployeeRecords[Visiting].date

C6_InRecord == [][C6_InStep]_vars

\* C6 witness: an IN is held and the IN held before it was closed as
\* OUT MISSING
C6_Witness ==
    /\ pc = "pair"
    /\ currentIn # 0
    /\ \E j \in SessionIds :
          /\ sessions[j].status = "OUT MISSING"
          /\ sessions[j].in < currentIn

-----------------------------------------------------------------------------
\* record i is a non-duplicate IN the pass has visited
IsValidInVisited(i) ==
    /\ i <= idx
    /\ i \in RecordIds
    /\ allEmployeeRecords[i].inOutStatus = 0
    /\ ~allEmployeeRecords[i].isDuplicate

InSlotOfSomeSession(i) == \E j \in SessionIds : sessions[j].in = i

\* C7 (step): at end of stream a held IN is closed as an OUT MISSING session
\* attributed to its own date.
C7_EndStep ==
    (pc = "pair" /\ idx = Len(allEmployeeRecords) /\ currentIn # 0) =>
        /\ Len(sessions') = Len(sessions) + 1
        /\ SubSeq(sessions', 1, Len(sessions)) = sessions
        /\ LET s == sessions'[Len(sessions')] IN
              /\ s.status = "OUT MISSING"
              /\ s.in = currentIn
              /\ s.out = 0
              /\ s.date = allEmployeeRecords[currentIn].date

\* C7 (state): a visited non-duplicate IN is the held IN while the pass
\* runs, or the in-slot of a session; once the stream has ended it is the
\* in-slot of a session.
C7_InHeldOrClosed ==
    \A i \in RecordIds :
        IsValidInVisited(i) =>
            \/ InSlotOfSomeSession(i)
            \/ pc = "pair" /\ currentIn = i

\* C7: a held IN is closed at end of stream as OUT MISSING on its own date,
\* hence every non-duplicate IN ends as the in-slot of some session, whatever
\* records follow it.
C7_EveryInClosed == [][C7_EndStep]_vars /\ []C7_InHeldOrClosed

\* C7 witness: the IN closed at end of stream was followed by further records
C7_Witness ==
    /\ pc = "filter"
    /\ currentIn # 0
    /\ currentIn < Len(allEmployeeRecords)
    /\ sessions[Len(sessions)].in = currentIn
    /\ sessions[Len(sessions)].status = "OUT MISSING"

-----------------------------------------------------------------------------
\* record i, the last one visited, met a held IN when it was visited: a
\* duplicate leaves the held IN as it found it, a non-duplicate OUT that met
\* a held IN is the out-slot of the session it closed
MetHeldIn(i) ==
    IF allEmployeeRecords[i].isDuplicate
    THEN currentIn # 0
    ELSE \E j \in SessionIds : sessions[j].out = i /\ sessions[j].in # 0

\* in the sessions ss, record i is the out-slot of exactly one session, a
\* NO IN RECORD session of the day before the record's date
OwnNoInSession(ss, i) ==
    LET J == { j \in 1..Len(ss) : ss[j].in = i \/ ss[j].out = i }
    IN  /\ Cardinality(J) = 1
        /\ \A j \in J :
              /\ ss[j].status = "NO IN RECORD"
              /\ ss[j].in = 0
              /\ ss[j].out = i
              /\ IsDayBefore(ss[j].date, allEmployeeRecords[i].date)

\* the record visited last and the record visited now are both OUTs, and no
\* IN was held when the first was visited
VisitsSecondOut ==
    /\ HasNext
    /\ idx >= 1
    /\ allEmployeeRecords[idx].inOutStatus # 0
    /\ allEmployeeRecords[Visiting].inOutStatus # 0
    /\ ~MetHeldIn(idx)

\* C8 as stated: any two consecutive OUT records, with no IN held when the
\* first arrives, each become their own NO IN RECORD session on the day
\* before their own date.
C8_AnyTwoOuts ==
    [][ VisitsSecondOut =>
           /\ OwnNoInSession(sessions', idx)
           /\ OwnNoInSession(sessions', Visiting) ]_vars

\* C8 amended: two consecutive OUT records neither of which is marked
\* isDuplicate, with no IN held when the first arrives, each become their own
\* NO IN RECORD session on the day before their own date (two sessions in
\* total).
C8_TwoValidOuts ==
    [][ ( /\ VisitsSecondOut
          /\ ~allEmployeeRecords[idx].isDuplicate
          /\ ~allEmployeeRecords'[Visiting].isDuplicate )
        => /\ OwnNoInSession(sessions', idx)
           /\ OwnNoInSession(sessions', Visiting)
           /\ Len(sessions') = Len(sessions) + 1 ]_vars

\* C8 witness: two consecutive OUTs, one hour apart across midnight, became
\* two NO IN RECORD sessions on two different days
C8_Witness ==
    \E j \in SessionIds :
        /\ j < Len(sessions)
        /\ sessions[j].status = "NO IN RECORD"
        /\ sessions[j + 1].status = "NO IN RECORD"
        /\ sessions[j + 1].out = sessions[j].out + 1
        /\ sessions[j].date = MkDate(2024, 2, 28)
        /\ sessions[j + 1].date = Feb29

-----------------------------------------------------------------------------
\* the records reported under a date
RecordsOn(date) == { i \in RecordIds : allEmployeeRecords[i].reportDate = date }

\* the n-th record of I in the order of allEmployeeRecords
Nth(I, n) == CHOOSE i \in I : Cardinality({ k \in I : k < i }) = n - 1

\* the non-duplicate record a duplicate follows
Donor(i) ==
    CHOOSE k \in RecordIds :
        /\ k < i
        /\ ~allEmployeeRecords[k].isDuplicate
        /\ \A l \in RecordIds : (k < l /\ l < i) => allEmployeeRecords[l].isDuplicate

\* C9: for every daily record, scanCount is the number of records
\* (duplicates included) whose reportDate is that date, logs holds exactly
\* those records with their isDuplicate flag and IN/OUT tag in ascending
\* timestamp order, and scanCount is the length of logs; a duplicate's
\* reportDate is that of the non-duplicate record it duplicates; the
\* documented double tap gives one NORMAL session of the first IN and
\* scanCount 3.
C9_DayLogs ==
    pc = "done" =>
        /\ \A k \in DayIds :
              LET day == report.dailyRecords[k]
                  I   == RecordsOn(day.date)
              IN  /\ day.scanCount = Cardinality(I)
                  /\ Len(day.logs) = day.scanCount
                  /\ \A n \in 1..Len(day.logs) :
                        LET r == allEmployeeRecords[Nth(I, n)]
                            l == day.logs[n]
                        IN  /\ l.dateTime = r.dateTime
                            /\ l.displayDate = r.date
                            /\ l.time = << r.time \div 3600, (r.time % 3600) \div 60 >>
                            /\ l.isDuplicate = r.isDuplicate
                            /\ l.type = Direction(r)
                  /\ \A a, b \in 1..Len(day.logs) :
                        a < b => AtMost(day.logs[a].dateTime, day.logs[b].dateTime)
        /\ \A i \in RecordIds :
              allEmployeeRecords[i].isDuplicate =>
                 allEmployeeRecords[i].reportDate
                    = allEmployeeRecords[Donor(i)].reportDate
        /\ fileText = DoubleTapExample =>
              /\ Len(sessions) = 1
              /\ sessions[1].status = "NORMAL"
              /\ sessions[1].in = 1
              /\ sessions[1].out = 3
              /\ allEmployeeRecords[2].isDuplicate
              /\ Len(report.dailyRecords) = 1
              /\ report.dailyRecords[1].scanCount = 3

\* C9 witness: a day whose logs hold a duplicate scanned on another calendar
\* date than the day it is reported under
C9_Witness ==
    /\ pc = "done"
    /\ \E k \in DayIds :
          \E n \in 1..Len(report.dailyRecords[k].logs) :
              /\ report.dailyRecords[k].logs[n].isDuplicate
              /\ report.dailyRecords[k].logs[n].displayDate
                    # report.dailyRecords[k].date

-----------------------------------------------------------------------------
\* what a session adds to the hours of its day, in seconds
SessionSeconds(j) ==
    IF sessions[j].status = "NORMAL"
    THEN Minus(allEmployeeRecords[sessions[j].out].dateTime,
               allEmployeeRecords[sessions[j].in].dateTime)
    ELSE 8 * 3600

RECURSIVE SumSessionSeconds(_)
SumSessionSeconds(J) ==
    IF J = {} THEN 0
    ELSE LET j == CHOOSE x \in J : TRUE
         IN  Plus(SessionSeconds(j), SumSessionSeconds(J \ {j}))

\* h hundredths of an hour is a hundredth nearest to sec seconds (NaN, the
\* sum of a session one of whose scans has an Invalid Date, stays NaN)
IsNearestHundredth(h, sec) ==
    IF IsNaN(sec) THEN IsNaN(h)
    ELSE /\ ~IsNaN(h)
         /\ 3600 * h - 100 * sec <= 1800
         /\ 100 * sec - 3600 * h <= 1800

\* a NORMAL session whose IN and OUT lie in different months
CrossesMonth(j) ==
    /\ sessions[j].status = "NORMAL"
    /\ << allEmployeeRecords[sessions[j].in].date.y,
          allEmployeeRecords[sessions[j].in].date.m >>
          # << allEmployeeRecords[sessions[j].out].date.y,
               allEmployeeRecords[sessions[j].out].date.m >>

\* C10: the days of the report are exactly the attributed dates, in the
\* requested year and month, of the sessions computed from the whole log,
\* and each day counts every session attributed to it in full, whatever the
\* calendar dates of its scans; a NORMAL session whose IN is in month M and
\* whose OUT is in month M+1 is reported with its full duration under M and
\* not at all under M+1.
C10_PeriodFilter ==
    pc = "done" =>
        /\ { report.dailyRecords[k].date : k \in DayIds }
              = { sessions[j].date :
                    j \in { x \in SessionIds : /\ sessions[x].date.y = year
                                               /\ sessions[x].date.m = month } }
        /\ \A k \in DayIds :
              LET day == report.dailyRecords[k]
                  sum == SumSessionSeconds(SessionsOfDay(day.date))
              IN  \* totalHours is the sum in hours, to the nearest hundredth
                  IsNearestHundredth(day.totalHours, sum)
        /\ \A j \in SessionIds :
              CrossesMonth(j) =>
                 LET in  == allEmployeeRecords[sessions[j].in]
                     out == allEmployeeRecords[sessions[j].out]
                 IN  /\ (month = in.date.m /\ year = in.date.y) =>
                           \E k \in DayIds : report.dailyRecords[k].date = in.date
                     /\ (month = out.date.m /\ year = out.date.y) =>
                           \A k \in DayIds :
                              /\ report.dailyRecords[k].date # sessions[j].date
                              /\ sessions[j].in \notin RecordsOn(report.dailyRecords[k].date)
                              /\ sessions[j].out \notin RecordsOn(report.dailyRecords[k].date)

\* C10 witness: the report of March has a day, and leaves out a session whose
\* IN is in February and whose OUT is in March
C10_Witness ==
    /\ pc = "done"
    /\ month = 3
    /\ Len(report.dailyRecords) >= 1
    /\ \E j \in SessionIds :
          /\ CrossesMonth(j)
          /\ allEmployeeRecords[sessions[j].out].date = Mar01

-----------------------------------------------------------------------------
\* C11: in every NORMAL session the OUT's timestamp is greater than or equal
\* to the IN's, so the session adds no negative hours, and every daily
\* record has totalHours >= 0.
C11_HoursNonNegative ==
    /\ \A j \in SessionIds :
          sessions[j].status = "NORMAL" =>
             AtMost(allEmployeeRecords[sessions[j].in].dateTime,
                    allEmployeeRecords[sessions[j].out].dateTime)
    /\ pc = "done" =>
          \A k \in DayIds : AtMost(0, report.dailyRecords[k].totalHours)

\* C11 witness: a report with a NORMAL session of positive length whose OUT
\* line stands before its IN line in the file
C11_Witness ==
    /\ pc = "done"
    /\ Len(fileText) = 2
    /\ fileText[1].io # 0
    /\ fileText[2].io = 0
    /\ Len(sessions) = 1
    /\ sessions[1].status = "NORMAL"
    /\ Len(report.dailyRecords) = 1
    /\ report.dailyRecords[1].totalHours > 0

-----------------------------------------------------------------------------
\* C12: a day's totalHours is the sum of the durations of its NORMAL sessions
\* plus exactly 8 hours for each of its other sessions, whatever the time of
\* their single scan, rounded once, for the day, to two decimals.
C12_FallbackHours ==
    pc = "done" =>
        \A k \in DayIds :
            LET day    == report.dailyRecords[k]
                J      == SessionsOfDay(day.date)
                normal == { j \in J : sessions[j].status = "NORMAL" }
                halves == J \ normal
                sum    == Plus(SumSessionSeconds(normal),
                               8 * 3600 * Cardinality(halves))
            IN  /\ IsNearestHundredth(day.totalHours, sum)
                /\ normal = {} => day.totalHours = 800 * Cardinality(halves)

\* C12 witness: a day with a NORMAL session of 40.5 minutes and an OUT MISSING
\* session: 8.675 hours, reported as 8.67 or 8.68
C12_Witness ==
    /\ pc = "done"
    /\ \E k \in DayIds :
          LET J == SessionsOfDay(report.dailyRecords[k].date) IN
          /\ \E j \in J : sessions[j].status = "NORMAL"
          /\ \E j \in J : sessions[j].status = "OUT MISSING"
          /\ report.dailyRecords[k].totalHours \in {867, 868}

-----------------------------------------------------------------------------
\* the status the precedence rule gives a day with the sessions J
StatusByPrecedence(J) ==
    IF \E j \in J : sessions[j].status = "OUT MISSING" THEN "OUT MISSING"
    ELSE IF \E j \in J : sessions[j].status = "NO IN RECORD" THEN "NO IN RECORD"
    ELSE "NORMAL"

\* C13: a daily record's status is OUT MISSING if any session of its day is
\* OUT MISSING, else NO IN RECORD if any is NO IN RECORD, else NORMAL, and
\* folding the day's sessions in any other order gives the same status.
C13_DayStatus ==
    pc = "done" =>
        \A k \in DayIds :
            LET day == report.dailyRecords[k] IN
            /\ day.status = StatusByPrecedence(SessionsOfDay(day.date))
            /\ \A ss \in Orderings(DaySessions(filteredSessions, day.date)) :
                  FoldSessions(DayStart, ss, allEmployeeRecords).status = day.status

\* C13 witness: a day with an OUT MISSING session and a NO IN RECORD session
\* after it, reported as OUT MISSING
C13_Witness ==
    /\ pc = "done"
    /\ \E k \in DayIds :
          LET J == SessionsOfDay(report.dailyRecords[k].date) IN
          /\ \E i, j \in J :
                /\ i < j
                /\ sessions[i].status = "OUT MISSING"
                /\ sessions[j].status = "NO IN RECORD"
          /\ report.dailyRecords[k].status = "OUT MISSING"

-----------------------------------------------------------------------------
DaysWithStatus(st) == { k \in DayIds : report.dailyRecords[k].status = st }

\* C14: totalDaysWithRecords is the number of daily records, totalNormalDays
\* the number of them with status NORMAL, totalOutMissingDays the number with
\* status OUT MISSING; their sum falls short of totalDaysWithRecords by the
\* number of NO IN RECORD days.
C14_SummaryCounts ==
    pc = "done" =>
        /\ report.summary.totalDaysWithRecords = Len(report.dailyRecords)
        /\ report.summary.totalNormalDays = Cardinality(DaysWithStatus("NORMAL"))
        /\ report.summary.totalOutMissingDays
              = Cardinality(DaysWithStatus("OUT MISSING"))
        /\ report.summary.totalNormalDays + report.summary.totalOutMissingDays
              <= report.summary.totalDaysWithRecords
        /\ report.summary.totalDaysWithRecords
              - report.summary.totalNormalDays - report.summary.totalOutMissingDays
              = Cardinality(DaysWithStatus("NO IN RECORD"))

\* C14 witness: a report with a NO IN RECORD day beside a day of another status
C14_Witness ==
    /\ pc = "done"
    /\ DaysWithStatus("NO IN RECORD") # {}
    /\ DaysWithStatus("NO IN RECORD") # DayIds

-----------------------------------------------------------------------------
SessionsInPeriod ==
    { j \in SessionIds : sessions[j].date.y = year /\ sessions[j].date.m = month }

\* C15: dailyRecords holds one record for each date that has a session
\* attributed to it in the requested month and year, none for any other
\* date, in strictly ascending date order.
C15_OneRecordPerDate ==
    pc = "done" =>
        /\ { report.dailyRecords[k].date : k \in DayIds }
              = { sessions[j].date : j \in SessionsInPeriod }
        /\ \A k \in DayIds :
              k < Len(report.dailyRecords) =>
                 DayNumber(report.dailyRecords[k].date)
                    < DayNumber(report.dailyRecords[k + 1].date)

\* C15 witness: a report of two days whose sessions were pushed in descending
\* order of their dates
C15_Witness ==
    /\ pc = "done"
    /\ Len(report.dailyRecords) >= 2
    /\ \E i, j \in SessionsInPeriod :
          i < j /\ DayNumber(sessions[i].date) > DayNumber(sessions[j].date)

-----------------------------------------------------------------------------
\* C16: the three-line log 09:00 IN, 18:00 OUT on 2024-03-01 and 09:05 IN on
\* 2024-03-02, for employee 101 and March 2024, gives two daily records:
\* 2024-03-01 NORMAL with 9 hours and 2024-03-02 OUT MISSING with 8 hours,
\* and the summary 2 days, 1 normal, 1 out-missing.
C16_EndToEnd ==
    ( /\ pc = "done"
      /\ fileText = EndToEndExample
      /\ employeeId = "101" /\ month = 3 /\ year = 2024 )
    => /\ Len(report.dailyRecords) = 2
       /\ report.dailyRecords[1].date = MkDate(2024, 3, 1)
       /\ report.dailyRecords[1].status = "NORMAL"
       /\ report.dailyRecords[1].totalHours = 900
       /\ report.dailyRecords[2].date = MkDate(2024, 3, 2)
       /\ report.dailyRecords[2].status = "OUT MISSING"
       /\ report.dailyRecords[2].totalHours = 800
       /\ report.summary = [totalDaysWithRecords |-> 2,
                            totalOutMissingDays |-> 1,
                            totalNormalDays |-> 1]

\* C16 witness: the call of the scenario has returned
C16_Witness ==
    /\ pc = "done"
    /\ fileText = EndToEndExample
    /\ month = 3
    /\ year = 2024
    /\ Len(report.dailyRecords) = 2

-----------------------------------------------------------------------------
\* no line of the log has five fields and the employee's id in the first
NoValidLine ==
    \A i \in 1..Len(fileText) :
        fileText[i].nf < 5 \/ fileText[i].id # employeeId

IsEmptyReport(r) ==
    /\ r.dailyRecords = <<>>
    /\ r.summary = [totalDaysWithRecords |-> 0,
                    totalOutMissingDays |-> 0,
                    totalNormalDays |-> 0]

\* C17: a call whose log has no valid line of the employee, or none of whose
\* sessions is attributed to the requested month and year, runs to its
\* return and returns a report with no daily records and zero counts.
C17_EmptyReport ==
    /\ (pc = "done" /\ (NoValidLine \/ SessionsInPeriod = {}))
          => IsEmptyReport(report)
    /\ (pc # "done" /\ (NoValidLine \/ (PassDone /\ SessionsInPeriod = {})))
          => ENABLED Next

\* C17 witness: the employee has sessions, none of them in the requested
\* period, and the call has returned
C17_Witness ==
    /\ pc = "done"
    /\ sessions # <<>>
    /\ SessionsInPeriod = {}
    /\ IsEmptyReport(report)

-----------------------------------------------------------------------------
\* lines that analyzeAttendance is to skip for employee 101: the lines of
\* OtherLines, a blank line, a line of another employee with seven fields and
\* an unparseable time, and a line of an employee whose id starts with 101
SkippedLines ==
    OtherLines \cup
    { [id |-> "", nf |-> 1, date |-> NoDate, time |-> 0, io |-> 0],
      [id |-> "102", nf |-> 7, date |-> Feb29, time |-> MkTime(25, 0, 0), io |-> 1],
      MkLine("1010", Feb29, MkTime(23, 50, 30), 0) }

IsSkipped(line, id) == line.nf < 5 \/ line.id # id

InsertAt(s, k, x) == SubSeq(s, 1, k) \o <<x>> \o SubSeq(s, k + 1, Len(s))

RemoveAt(s, k) == SubSeq(s, 1, k - 1) \o SubSeq(s, k + 1, Len(s))

\* the records as line 65 leaves them: isDuplicate and reportDate not yet set
Fresh(recs) ==
    [i \in 1..Len(recs) |->
        [recs[i] EXCEPT !.isDuplicate = FALSE, !.reportDate = NoDate]]

\* a holds the elements of b, each as often as b
IsPermutationOf(a, b) ==
    /\ Len(a) = Len(b)
    /\ \A i \in 1..Len(a) :
          Cardinality({ k \in 1..Len(a) : a[k] = a[i] })
             = Cardinality({ k \in 1..Len(b) : b[k] = a[i] })

\* a is one of SortOutcomes(b)
IsSortOutcome(a, b) ==
    IF IsConsistent(b) THEN a = SortByDateTime(b) ELSE IsPermutationOf(a, b)

\* after line 65 the call works on the gathered records, on nothing else of
\* the log, and its report is one the function gives for those records
ReportIsFunctionOfRecords ==
    /\ pc = "sort" =>
          allEmployeeRecords = GatherRecords(fileText, employeeId)
    /\ pc \in {"pair", "filter", "aggregate", "done"} =>
          IsSortOutcome(Fresh(allEmployeeRecords),
                        GatherRecords(fileText, employeeId))
    /\ pc = "done" =>
          report \in ReportsOf(Fresh(allEmployeeRecords),
                               employeeId, month, year, tieUp)

\* the log, with a skipped line inserted at any position and with any of
\* its skipped lines removed
Variants(lines, id) ==
    { InsertAt(lines, k, line) : k \in 0..Len(lines), line \in SkippedLines }
       \cup { RemoveAt(lines, k) : k \in { n \in 1..Len(lines) : IsSkipped(lines[n], id) } }

\* C18: lines with fewer than 5 fields and lines whose first field is not
\* the employee's id have no effect on the report: the log with such a line
\* inserted at any position, or with such a line removed, gives the same
\* records at line 65, the report is a function of those records and of the
\* three other arguments, and (compared directly where the changed log is
\* a log of the model and sort leaves one order) the call on the changed
\* log returns the same report; no step of the call fails on such a line.
C18_SkippedLinesNoEffect ==
    /\ ReportIsFunctionOfRecords
    /\ pc = "gather" =>
          LET records == GatherRecords(fileText, employeeId)
              reports == AnalyzeAttendance(fileText, employeeId, month, year, tieUp)
          IN  \A lines \in Variants(fileText, employeeId) :
                  /\ GatherRecords(lines, employeeId) = records
                  /\ (IsConsistent(records) /\ lines \in BaseLogs) =>
                        AnalyzeAttendance(lines, employeeId, month, year, tieUp)
                           = reports
    /\ (pc # "done" /\ \E k \in 1..Len(fileText) : IsSkipped(fileText[k], employeeId))
          => ENABLED Next

\* C18 witness: the call on a log with a skipped line between two lines of
\* the employee has returned a report with a NORMAL day, the report that
\* the log without the line and the log with any other skipped line in its
\* place give as well
C18_Witness ==
    /\ pc = "done"
    /\ Len(fileText) = 3
    /\ ~IsSkipped(fileText[1], employeeId)
    /\ IsSkipped(fileText[2], employeeId)
    /\ ~IsSkipped(fileText[3], employeeId)
    /\ \E k \in DayIds : report.dailyRecords[k].status = "NORMAL"
    /\ AnalyzeAttendance(RemoveAt(fileText, 2), employeeId, month, year, tieUp)
          = { report }
    /\ \A line \in SkippedLines :
          /\ IsSkipped(line, employeeId)
          /\ AnalyzeAttendance(InsertAt(RemoveAt(fileText, 2), 1, line),
                               employeeId, month, year, tieUp) = { report }

-----------------------------------------------------------------------------
\* a line of the employee, with all its fields, whose date and time do not
\* parse to an instant
IsInvalidLine(line, id) ==
    line.nf >= 5 /\ line.id = id /\ IsNaN(ToDateTime(line.date, line.time))

WithoutInvalidLines(lines, id) ==
    SelectSeq(lines, LAMBDA line : ~IsInvalidLine(line, id))

\* C19: a line of the employee whose date and time do not parse to a valid
\* instant is dropped like a malformed line: it becomes no record (so it is
\* in no session and in no scanCount), and the report is the report of the
\* same log without that line.
C19_InvalidLineDropped ==
    /\ \A i \in RecordIds : ~IsNaN(allEmployeeRecords[i].dateTime)
    /\ pc = "done" =>
          report \in AnalyzeAttendance(WithoutInvalidLines(fileText, employeeId),
                                       employeeId, month, year, tieUp)

-----------------------------------------------------------------------------
\* C20: analyzeAttendance is a function of its four arguments: whatever call
\* was made before, for whatever employee and period, every call starts
\* from fresh locals and returns the report the function gives for its own
\* arguments, which is one report (whenever line 68 sorts with a consistent
\* comparator), so two calls with the same arguments return the same report.
C20_PureFunction ==
    /\ pc = "gather" =>
          /\ allEmployeeRecords = <<>>
          /\ sessions = <<>>
          /\ lastValid = 0
          /\ currentIn = 0
    /\ pc = "done" =>
          LET reports == AnalyzeAttendance(fileText, employeeId, month, year, tieUp)
          IN  /\ report \in reports
              /\ IsConsistent(GatherRecords(fileText, employeeId)) =>
                    reports = { report }

\* C20 witness: a call has returned a report with a daily record after a call
\* for another employee on the same log
C20_Witness ==
    /\ pc = "done"
    /\ previous # NoCall
    /\ previous[1] = fileText
    /\ previous[2] # employeeId
    /\ report.dailyRecords # <<>>

-----------------------------------------------------------------------------
\* the first and the last session of a day, in pairing order
FirstOf(J) == CHOOSE j \in J : \A k \in J : j <= k

LastOf(J) == CHOOSE j \in J : \A k \in J : k <= j

\* C22: a daily record's inTime is the IN time (HH:MM) of the first session
\* attributed to its date, in pairing order, when that session has an IN
\* scan, and "-" when it has none.
C22_InTime ==
    pc = "done" =>
        \A k \in DayIds :
            LET day   == report.dailyRecords[k]
                first == sessions[FirstOf(SessionsOfDay(day.date))]
            IN  day.inTime = IF first.in # 0
                             THEN TimeHHMM(allEmployeeRecords[first.in].time)
                             ELSE Dash

-----------------------------------------------------------------------------
\* C23 as stated: a daily record's outTime is the OUT time (HH:MM) of the
\* last session attributed to its date, in pairing order, when that session
\* has an OUT scan, and "-" when it has none.
C23_OutTimeOfLastSession ==
    pc = "done" =>
        \A k \in DayIds :
            LET day  == report.dailyRecords[k]
                last == sessions[LastOf(SessionsOfDay(day.date))]
            IN  day.outTime = IF last.out # 0
                              THEN TimeHHMM(allEmployeeRecords[last.out].time)
                              ELSE Dash

\* C23 amended: a daily record's outTime is the OUT time (HH:MM) of the last
\* of the sessions attributed to its date, in pairing order, that have an
\* OUT scan, and "-" when no session of the date has one.
C23_LastOutTime ==
    pc = "done" =>
        \A k \in DayIds :
            LET day     == report.dailyRecords[k]
                withOut == { j \in SessionsOfDay(day.date) : sessions[j].out # 0 }
            IN  day.outTime = IF withOut # {}
                              THEN TimeHHMM(allEmployeeRecords[
                                               sessions[LastOf(withOut)].out].time)
                              ELSE Dash

\* C23 witness: a day whose last session is an IN left open after a NORMAL
\* session: outTime is the NORMAL session's OUT time
C23_Witness ==
    /\ pc = "done"
    /\ \E k \in DayIds :
          LET day == report.dailyRecords[k]
              J   == SessionsOfDay(day.date)
          IN  /\ Cardinality(J) = 2
              /\ sessions[FirstOf(J)].status = "NORMAL"
              /\ sessions[LastOf(J)].status = "OUT MISSING"
              /\ day.outTime
                    = TimeHHMM(allEmployeeRecords[sessions[FirstOf(J)].out].time)

-----------------------------------------------------------------------------
\* the steps the call has still to take: one for each record not yet
\* visited, one for each stage not yet run
StepsLeft ==
    CASE pc = "idle"      -> MaxLines + 6
      [] pc = "gather"    -> Len(fileText) + 5
      [] pc = "sort"      -> Len(allEmployeeRecords) + 4
      [] pc = "pair"      -> Len(allEmployeeRecords) - idx + 3
      [] pc = "filter"    -> 2
      [] pc = "aggregate" -> 1
      [] pc = "done"      -> 0

\* every step of every stage takes the call nearer to its return, at most
\* lines + 5 steps are taken (one for parse, sort, end of stream, filter and
\* aggregate, one for each record visited by the dedup+pair pass), and a
\* step is possible as long as the report is not returned
StepsDecrease ==
    /\ [](pc # "idle" => StepsLeft \in 0..(Len(fileText) + 5))
    /\ [][StepsLeft' < StepsLeft]_vars
    /\ [](pc \notin {"idle", "done"} => ENABLED Next)

\* C25: analyzeAttendance terminates on every finite log: each stage runs a
\* number of steps bounded by the number of lines, and the report is
\* eventually returned.
C25_Terminates == StepsDecrease /\ <>(pc = "done")

\* C25 witness: the call has returned after every stage had work to do:
\* a log of MaxLines lines of the employee, a double tap marked, sessions
\* in the period
C25_Witness ==
    /\ pc = "done"
    /\ Len(fileText) = MaxLines
    /\ idx = MaxLines
    /\ \E i \in RecordIds : allEmployeeRecords[i].isDuplicate
    /\ report.dailyRecords # <<>>

-----------------------------------------------------------------------------
\* one step of the call, as the sessions see it: at most one session is
\* pushed, behind those already there, which stay as they are; a double tap
\* pushes none; an OUT visited while an IN is held is paired with that IN
PairingStep ==
    /\ Len(sessions') \in { Len(sessions), Len(sessions) + 1 }
    /\ SubSeq(sessions', 1, Len(sessions)) = sessions
    /\ (HasNext /\ DoubleTapNow) => sessions' = sessions
    /\ (VisitsValidOut /\ currentIn # 0) =>
          LET s == sessions'[Len(sessions')] IN
          /\ Len(sessions') = Len(sessions) + 1
          /\ s.status = "NORMAL"
          /\ s.in = currentIn
          /\ s.out = Visiting
    /\ ~(pc = "pair") => sessions' = sessions

\* a paired IN was visited before its OUT, and every record visited between
\* the two is a double tap: the OUT met no IN nearer than the held one
PairedWithHeldIn ==
    \A j \in SessionIds :
        sessions[j].status = "NORMAL" =>
            /\ sessions[j].in < sessions[j].out
            /\ \A k \in (sessions[j].in + 1)..(sessions[j].out - 1) :
                  allEmployeeRecords[k].isDuplicate

\* C26: pairing is greedy and append-only: a record pushes at most one
\* session, when it is visited, a double tap none; a pushed session is never
\* changed, removed or paired again; an OUT is paired with the IN held when
\* it is visited, however long after that IN it was scanned, never with an
\* IN scanned nearer to it or after it.
C26_GreedyPairing == [][PairingStep]_vars /\ []PairedWithHeldIn

\* C26 witness: an OUT scanned more than nine hours after an IN is paired
\* with it, not with the double tap of that IN scanned forty minutes later
C26_Witness ==
    /\ PassDone
    /\ \E j \in SessionIds :
          LET s == sessions[j] IN
          /\ s.status = "NORMAL"
          /\ s.out = s.in + 2
          /\ allEmployeeRecords[s.in + 1].isDuplicate
          /\ IsIn(allEmployeeRecords[s.in + 1])
          /\ Less(9 * 3600, Minus(allEmployeeRecords[s.out].dateTime,
                                  allEmployeeRecords[s.in].dateTime))

-----------------------------------------------------------------------------
\* the lines of a log in every order
LineOrders(lines) ==
    { [i \in 1..Len(lines) |-> lines[p[i]]] : p \in Permutations(1..Len(lines)) }

\* every record has a timestamp, and no two records the same
DistinctTimestamps(recs) ==
    /\ \A i \in 1..Len(recs) : ~IsNaN(recs[i].dateTime)
    /\ \A i, j \in 1..Len(recs) : i # j => recs[i].dateTime # recs[j].dateTime

\* sorted holds the records of recs in ascending order of timestamp, those
\* with the same timestamp in the order they have in recs
IsStableSortOf(sorted, recs) ==
    \E p \in Permutations(1..Len(recs)) :
        /\ sorted = [i \in 1..Len(recs) |-> recs[p[i]]]
        /\ \A i, j \in 1..Len(recs) :
              i < j => \/ recs[p[i]].dateTime < recs[p[j]].dateTime
                       \/ /\ recs[p[i]].dateTime = recs[p[j]].dateTime
                          /\ p[i] < p[j]

\* an OUT listed before an IN with the same timestamp, and the reverse
OutThenIn ==
    << MkLine("101", Mar01, MkTime(9, 0, 0), 1),
       MkLine("101", Mar01, MkTime(9, 0, 0), 0) >>

InThenOut ==
    << MkLine("101", Mar01, MkTime(9, 0, 0), 0),
       MkLine("101", Mar01, MkTime(9, 0, 0), 1) >>

\* C27, at one state of the call
OrderOfLines ==
    /\ ReportIsFunctionOfRecords
    /\ pc = "gather" =>
          LET records == GatherRecords(fileText, employeeId)
              reports == AnalyzeAttendance(fileText, employeeId, month, year, tieUp)
          IN  DistinctTimestamps(records) =>
                 \A lines \in LineOrders(fileText) :
                     /\ SortOutcomes(GatherRecords(lines, employeeId))
                           = SortOutcomes(records)
                     /\ AnalyzeAttendance(lines, employeeId, month, year, tieUp)
                           = reports
    /\ LET records == GatherRecords(fileText, employeeId) IN
       (pc \in {"pair", "filter", "aggregate", "done"}
           /\ \A i \in 1..Len(records) : ~IsNaN(records[i].dateTime))
          => IsStableSortOf(Fresh(allEmployeeRecords), records)
    /\ (pc = "filter" /\ fileText = OutThenIn) =>
          /\ Len(sessions) = 2
          /\ sessions[1].status = "NO IN RECORD"
          /\ sessions[2].status = "OUT MISSING"
    /\ (pc = "filter" /\ fileText = InThenOut) =>
          /\ Len(sessions) = 1
          /\ sessions[1].status = "NORMAL"

\* C27: when the employee's records have pairwise distinct timestamps the
\* report does not depend on the order of the lines in the file: the call
\* on the lines in any other order returns the same report.  Records with
\* equal timestamps are visited in file order (the sort is stable): an OUT
\* listed before an IN with the same timestamp is handled as OUT then IN.
C27_OrderOfLines == []OrderOfLines

\* C27 witness: the report of a log listed latest scan first, with three
\* distinct timestamps, is the report of the same lines listed in ascending
\* order, with a NORMAL night shift
C27_Witness ==
    /\ pc = "done"
    /\ Len(fileText) = 3
    /\ DistinctTimestamps(GatherRecords(fileText, employeeId))
    /\ Len(allEmployeeRecords) = 3
    /\ \A i \in 1..3 : Fresh(allEmployeeRecords)[i] = MkRecord(fileText[4 - i])
    /\ \E k \in DayIds : report.dailyRecords[k].isNextDayOut
    /\ AnalyzeAttendance(<<fileText[3], fileText[2], fileText[1]>>,
                          employeeId, month, year, tieUp) = { report }

-----------------------------------------------------------------------------
\* a date of the month mo of the year yr
InMonth(date, mo, yr) == date.m = mo /\ date.y = yr

\* the flags and the sessions are those the pass gives for the sorted
\* records alone: no month, no year
PassIgnoresPeriod ==
    PassDone =>
        LET st == CloseHeld(VisitFrom(PassStart(Fresh(allEmployeeRecords)), 1))
        IN  /\ st.recs = allEmployeeRecords
            /\ st.sessions = sessions

\* the report of any period p, of the same log, has exactly the days of the
\* sessions of this call attributed to p, each with the scans that the
\* flags of this call attribute to it
OtherPeriodsFromSameSessions ==
    pc = "done" =>
        \A p \in Periods :
            \A r \in ReportsOf(Fresh(allEmployeeRecords), employeeId, p[1], p[2], tieUp) :
                /\ { r.dailyRecords[k].date : k \in 1..Len(r.dailyRecords) }
                      = { sessions[j].date :
                            j \in { x \in SessionIds : InMonth(sessions[x].date, p[1], p[2]) } }
                /\ \A k \in 1..Len(r.dailyRecords) :
                      LET day == r.dailyRecords[k] IN
                      /\ day.status = StatusByPrecedence(SessionsOfDay(day.date))
                      /\ day.scanCount = Cardinality(RecordsOn(day.date))
                      /\ Cardinality({ n \in 1..Len(day.logs) : day.logs[n].isDuplicate })
                            = Cardinality({ i \in RecordsOn(day.date) :
                                              allEmployeeRecords[i].isDuplicate })

\* C28: dedup and pairing run over the employee's whole log before the
\* period filter: month and year have no part in the flags and the sessions;
\* the sessions reported for (month, year) are exactly those, of the sessions
\* of the full log, that are attributed to that month and year; a scan dated
\* in the requested month that belongs to a session attributed to another
\* month is in no daily record of the report.
C28_PairBeforeFilter ==
    /\ PassIgnoresPeriod
    /\ OtherPeriodsFromSameSessions
    /\ pc \in {"aggregate", "done"} =>
          filteredSessions
             = SelectSeq(sessions, LAMBDA sess : InMonth(sess.date, month, year))
    /\ pc = "done" =>
          \A i \in RecordIds :
              LET rec == allEmployeeRecords[i] IN
              (InMonth(rec.date, month, year) /\ ~InMonth(rec.reportDate, month, year))
                 => \A k \in DayIds :
                       LET day == report.dailyRecords[k] IN
                       /\ day.date # rec.reportDate
                       /\ i \notin RecordsOn(day.date)
                       /\ day.scanCount = Cardinality(RecordsOn(day.date))

\* C28 witness: the report of March has the day of a morning IN of March 1st
\* with one scan, and not the OUT scanned on March 1st after midnight, which
\* is a NO IN RECORD session of February 29th
C28_Witness ==
    /\ pc = "done"
    /\ month = 3
    /\ \E j \in SessionIds :
          /\ sessions[j].status = "NO IN RECORD"
          /\ sessions[j].date = Feb29
          /\ allEmployeeRecords[sessions[j].out].date = Mar01
    /\ Len(report.dailyRecords) = 1
    /\ report.dailyRecords[1].date = Mar01
    /\ report.dailyRecords[1].scanCount = 1
    /\ Len(allEmployeeRecords) >= 2

-----------------------------------------------------------------------------
\* the NO IN RECORD sessions of an OUT dated on the first day of a month
FirstDayOrphans ==
    { j \in SessionIds : /\ sessions[j].status = "NO IN RECORD"
                         /\ allEmployeeRecords[sessions[j].out].date.d = 1 }

\* C29: an orphan OUT dated on the first day of a month is attributed to the
\* last day of the month before, whatever that month's length and also
\* across the year's end (2024-03-01 -> 2024-02-29, 2023-03-01 -> 2023-02-28,
\* 2024-01-01 -> 2023-12-31); its NO IN RECORD session is in the report of
\* the month before and not in the report of the month the scan is dated in.
C29_MonthStartOrphan ==
    /\ \A j \in FirstDayOrphans :
          LET out == allEmployeeRecords[sessions[j].out]
              on  == sessions[j].date
          IN  /\ IsDayBefore(on, out.date)
              /\ <<on.y, on.m>> # <<out.date.y, out.date.m>>
              /\ out.date = MkDate(2024, 3, 1) => on = MkDate(2024, 2, 29)
              /\ out.date = MkDate(2023, 3, 1) => on = MkDate(2023, 2, 28)
              /\ out.date = MkDate(2024, 1, 1) => on = MkDate(2023, 12, 31)
              /\ out.reportDate = on
    /\ pc = "done" =>
          \A j \in FirstDayOrphans :
              LET out == allEmployeeRecords[sessions[j].out]
                  on  == sessions[j].date
              IN  /\ InMonth(on, month, year) =>
                        \E k \in DayIds :
                            LET day == report.dailyRecords[k] IN
                            /\ day.date = on
                            /\ day.status # "NORMAL"
                            /\ \E n \in 1..Len(day.logs) :
                                  /\ day.logs[n].displayDate = out.date
                                  /\ day.logs[n].type = "OUT"
                  /\ InMonth(out.date, month, year) =>
                        \A k \in DayIds :
                            /\ report.dailyRecords[k].date # on
                            /\ sessions[j].out \notin RecordsOn(report.dailyRecords[k].date)

\* C29 witness: the report of December 2023 has the NO IN RECORD day
\* 2023-12-31 of an OUT scanned on 2024-01-01
C29_Witness ==
    /\ pc = "done"
    /\ month = 12
    /\ year = 2023
    /\ \E j \in FirstDayOrphans :
          /\ allEmployeeRecords[sessions[j].out].date = MkDate(2024, 1, 1)
          /\ sessions[j].date = MkDate(2023, 12, 31)
    /\ \E k \in DayIds :
          /\ report.dailyRecords[k].date = MkDate(2023, 12, 31)
          /\ report.dailyRecords[k].status = "NO IN RECORD"

-----------------------------------------------------------------------------
\* the months the scans of the logs can be attributed to
AllPeriods == { <<1, 2024>>, <<2, 2024>>, <<3, 2024>> }

\* a report of period p on the records as this call sorted them
ReportOfPeriod(p) ==
    CHOOSE r \in ReportsOf(Fresh(allEmployeeRecords), employeeId, p[1], p[2], tieUp) :
        TRUE

RECURSIVE SumScanCounts(_)
SumScanCounts(days) ==
    IF days = <<>> THEN 0 ELSE Head(days).scanCount + SumScanCounts(Tail(days))

\* the reports of all periods
ReportsOfAllPeriods == [p \in AllPeriods |-> ReportOfPeriod(p)]

RECURSIVE SumOverPeriods(_, _)
SumOverPeriods(reports, P) ==
    IF P = {} THEN 0
    ELSE LET p == CHOOSE x \in P : TRUE
         IN  SumScanCounts(reports[p].dailyRecords) + SumOverPeriods(reports, P \ {p})

\* the daily records, of the reports of all periods, that have the date
DaysDated(reports, date) ==
    { pk \in UNION { {p} \X (1..Len(reports[p].dailyRecords)) : p \in AllPeriods } :
         reports[pk[1]].dailyRecords[pk[2]].date = date }

\* C30: attribution conserves scans: after the pass every record of the
\* employee, double tap or not, has a reportDate, the attributed date of
\* some session; over the reports of all periods each record is in the logs
\* of exactly one daily record, every daily record has scanCount >= 1, and
\* the scanCounts of all periods add up to the number of records.
C30_ScansConserved ==
    /\ PassDone =>
          \A i \in RecordIds :
              /\ allEmployeeRecords[i].reportDate # NoDate
              /\ \E j \in SessionIds :
                    sessions[j].date = allEmployeeRecords[i].reportDate
    /\ pc = "done" =>
          /\ \A k \in DayIds :
                /\ report.dailyRecords[k].scanCount >= 1
                /\ report.dailyRecords[k].scanCount = Len(report.dailyRecords[k].logs)
          /\ report \in ReportsOf(Fresh(allEmployeeRecords), employeeId, month, year, tieUp)
          /\ \A p \in AllPeriods :
                \A r \in ReportsOf(Fresh(allEmployeeRecords), employeeId, p[1], p[2], tieUp) :
                    \A k \in 1..Len(r.dailyRecords) :
                        /\ r.dailyRecords[k].scanCount >= 1
                        /\ r.dailyRecords[k].scanCount
                              = Cardinality(RecordsOn(r.dailyRecords[k].date))
                        /\ r.dailyRecords[k].scanCount = Len(r.dailyRecords[k].logs)
          /\ LET reports == ReportsOfAllPeriods IN
                /\ \A i \in RecordIds :
                      Cardinality(DaysDated(reports, allEmployeeRecords[i].reportDate)) = 1
                /\ SumOverPeriods(reports, AllPeriods) = Len(allEmployeeRecords)

\* C30 witness: three scans, one of them a double tap, two of them under a
\* day of this report and one under a day of another month's report
C30_Witness ==
    /\ pc = "done"
    /\ Len(allEmployeeRecords) = 3
    /\ \E i \in RecordIds : allEmployeeRecords[i].isDuplicate
    /\ Len(report.dailyRecords) = 1
    /\ report.dailyRecords[1].scanCount = 2
    /\ \E i \in RecordIds : ~InMonth(allEmployeeRecords[i].reportDate, month, year)

-----------------------------------------------------------------------------
\* an identifier made of digits only, and the number it writes
IsNumericId(id) == IdText[id] # <<>> /\ \A k \in 1..Len(IdText[id]) : IdText[id][k] \in Digits

NumericValue(id) == DecimalValue(IdText[id])

FirstFields == { fileText[k].id : k \in 1..Len(fileText) } \ { "" }

\* C21: getEmployeeIds returns every distinct non-empty first field of the
\* lines of the log exactly once, whatever the employee and however many
\* fields the line has, and when all the identifiers are numeric the list is
\* in ascending order of numeric value
C21_EmployeeIds ==
    pc = "listed" =>
       /\ \A i, j \in 1..Len(ids) : i # j => ids[i] # ids[j]
       /\ { ids[i] : i \in 1..Len(ids) } = FirstFields
       /\ (\A id \in FirstFields : IsNumericId(id)) =>
             \A i, j \in 1..Len(ids) :
                i < j => NumericValue(ids[i]) <= NumericValue(ids[j])

\* the log 10, 9, 10 is listed as 9, 10: the repeated identifier once, 9
\* before 10; and a line of one field only gives its identifier
C21_Witness ==
    /\ pc = "listed"
    /\ Len(fileText) = 3
    /\ fileText[1].id = "10" /\ fileText[2].id = "9" /\ fileText[3].id = "10"
    /\ ids = << "9", "10" >>

-----------------------------------------------------------------------------
\* the field of a daily record that a column of an exported table shows
ColumnField ==
    ("date" :> "date") @@ ("Date" :> "date")
       @@ ("inTime" :> "inTime") @@ ("IN Time" :> "inTime")
       @@ ("outTime" :> "outTime") @@ ("OUT Time" :> "outTime")
       @@ ("totalHours" :> "totalHours") @@ ("Hours" :> "totalHours")
       @@ ("scanCount" :> "scanCount") @@ ("Scans" :> "scanCount")
       @@ ("status" :> "status") @@ ("Status" :> "status")

ReportFields == { "date", "inTime", "outTime", "totalHours", "scanCount", "status" }

\* the table has one column for each of the six fields
ShowsReportFields(header) ==
    \A f \in ReportFields :
       \E c \in 1..Len(header) : header[c] \in DOMAIN ColumnField /\ ColumnField[header[c]] = f

\* the row shows the six fields of the daily record r as they are
RowShows(header, row, r) ==
    \A c \in 1..Len(header) :
       header[c] \in DOMAIN ColumnField => row[c] = r[ColumnField[header[c]]]

\* the report whose rows are in the k-th file of the download: in a ZIP the
\* k-th report, else the active one
ExportedReport(k) ==
    IF page.download.kind = "zip" THEN page.results[k] ELSE Result(page)

\* C24: every row of an exported file (CSV, Excel, PDF, ZIP) carries the
\* date, inTime, outTime, totalHours, scanCount and status of one daily
\* record of the exported report, unchanged: no exporter recomputes hours
\* or status
C24_ExportersOnlyFormat ==
    page.download # NoDownload =>
       \A k \in 1..Len(page.download.files) :
          LET f == page.download.files[k]
              days == ExportedReport(k).dailyRecords
          IN  /\ ShowsReportFields(f.header)
              /\ \A i \in 1..Len(f.rows) :
                    \E d \in 1..Len(days) : RowShows(f.header, f.rows[i], days[d])

\* a PDF of the report of employee 101 for March 2024: the row of
\* 2024-03-01 shows the OUT of 12:00 and the status OUT MISSING of the
\* report, the IN of 18:00 having stayed open
C24_Witness ==
    /\ page.download.kind = "pdf"
    /\ \E i \in 1..Len(page.download.files[1].rows) :
          LET row == page.download.files[1].rows[i]
          IN  /\ row[2] = Mar01
              /\ row[5] # Dash
              /\ row[8] = "OUT MISSING"

-----------------------------------------------------------------------------
\* an IN is held exactly when the last record that is no double tap is an
\* IN, and the held IN is that record
HeldInIsLastValid ==
    /\ currentIn # 0 <=> (lastValid # 0 /\ IsIn(allEmployeeRecords[lastValid]))
    /\ currentIn # 0 => currentIn = lastValid

\* a double tap changes neither currentIn, lastValid nor sessions
DoubleTapStep ==
    (HasNext /\ DoubleTapNow) =>
        /\ currentIn' = currentIn
        /\ lastValid' = lastValid
        /\ sessions' = sessions

\* an IN that closes the held IN was scanned an hour or more after it
ClosingInStep ==
    (VisitsValidIn /\ currentIn # 0) =>
        AtMost(Plus(allEmployeeRecords[currentIn].dateTime, DoubleTapWindow),
               allEmployeeRecords[Visiting].dateTime)

\* C37: at every step of the pass an IN is held if and only if lastValid is
\* an IN, and then currentIn is that record; a double tap changes neither
\* currentIn, lastValid nor sessions; an IN that closes a held IN as OUT
\* MISSING is at least one hour later than the held IN
C37_HeldIn == []HeldInIsLastValid /\ [][DoubleTapStep /\ ClosingInStep]_vars

\* the first two parts of C37, without the hour between the two INs
C37_HeldInAndDoubleTap == []HeldInIsLastValid /\ [][DoubleTapStep]_vars

-----------------------------------------------------------------------------
\* the daily records of the active report that an export is to hold: the
\* selected ones if a row is selected, else the filtered ones if a filter
\* is set, else all
DaysToExport ==
    LET days == Result(page).dailyRecords
    IN  { d \in 1..Len(days) :
             IF page.selectedRows # <<>>
             THEN \E i \in 1..Len(page.selectedRows) : page.selectedRows[i] = days[d].date
             ELSE IF page.tableFilter # NoFilter
             THEN days[d].date = page.tableFilter
             ELSE TRUE }

\* the column of a table that has this name
ColumnNamed(header, name) == CHOOSE c \in 1..Len(header) : header[c] = name

\* the name of the column that holds the employee
EmployeeColumn(kind) == IF kind = "csv" THEN "employeeId" ELSE "Employee ID"

\* C32: the rows that getExportData gives an exporter of the active report
\* are, in the report's order, exactly its daily records whose date is in
\* selectedRows if any row is selected, otherwise the filtered records if a
\* table filter is set, otherwise all its daily records; every row belongs
\* to the active report
C32_ExportPriority ==
    page.download.kind \in {"csv", "xlsx", "pdf"} =>
       LET f == page.download.files[1]
           days == Result(page).dailyRecords
       IN  /\ Len(f.rows) = Cardinality(DaysToExport)
           /\ \A i \in 1..Len(f.rows) :
                 /\ RowShows(f.header, f.rows[i], days[Nth(DaysToExport, i)])
                 /\ f.rows[i][ColumnNamed(f.header, EmployeeColumn(page.download.kind))]
                       = Result(page).employeeId

\* the row of 2024-03-02 is selected and then the table is filtered by
\* 2024-03-01: the Excel file holds the selected row, not the filtered one
C32_Witness ==
    /\ page.download.kind = "xlsx"
    /\ page.tableFilter = Mar01
    /\ page.selectedRows = << Mar02 >>
    /\ Len(page.download.files[1].rows) = 1
    /\ page.download.files[1].rows[1][2] = Mar02

-----------------------------------------------------------------------------
\* C34: the month and the year in the name of every downloaded file (CSV,
\* Excel, PDF, the ZIP and the files in it) are the month and the year of
\* the report whose rows are in the file
C34_NameOfReportPeriod ==
    page.download # NoDownload =>
       /\ \A k \in 1..Len(page.download.files) :
             LET name == page.download.files[k].name
             IN  /\ name[3] = ExportedReport(k).month
                 /\ name[4] = ExportedReport(k).year
       /\ page.download.kind = "zip" =>
             \A k \in 1..Len(page.results) :
                /\ page.download.name[2] = page.results[k].month
                /\ page.download.name[3] = page.results[k].year

-----------------------------------------------------------------------------
\* activeResultIndex is an index of results
ActiveIndexValid ==
    page.results # <<>> =>
       /\ 0 <= page.activeResultIndex
       /\ page.activeResultIndex < Len(page.results)

\* every report of results has a daily record
OnlyReportsWithRecords ==
    \A k \in 1..Len(page.results) : page.results[k].dailyRecords # <<>>

\* the employee has a daily record in the month and year
HasRecordsIn(text, id, mo, yr) ==
    \E up \in BOOLEAN :
       \E res \in AnalyzeAttendance(text, id, mo, yr, up) : res.dailyRecords # <<>>

\* processData ends: results holds one report for each of the employees
\* it was run for that has a daily record, in their order, made for the
\* month and year it was run for; if there is none, results is empty and
\* the error message is set
ProcessDataEnds ==
    (page.processing # NoProcessing /\ page'.processing = NoProcessing) =>
       LET c == page.processing
           with == SelectSeq(c.selectedEmployees,
                             LAMBDA id : HasRecordsIn(c.file.text, id, c.month, c.year))
       IN  /\ Len(page'.results) = Len(with)
           /\ \A k \in 1..Len(with) :
                 /\ page'.results[k].employeeId = with[k]
                 /\ page'.results[k].month = c.month
                 /\ page'.results[k].year = c.year
           /\ with = <<>> => page'.error # ""

\* C35: results holds only reports with at least one daily record, in the
\* order of the selected employees processData was run for; whenever
\* results is not empty, 0 <= activeResultIndex < results.length; and when
\* no selected employee has records in the period, results is empty and the
\* error message is set
C35_Results ==
    /\ [](ActiveIndexValid /\ OnlyReportsWithRecords)
    /\ [][ProcessDataEnds]_vars

\* employees 101 and 102 selected, February 2024: results holds the report
\* of 102 only, and the first tab is the active one
C35_Witness ==
    /\ page.selectedEmployees = << "101", "102" >>
    /\ page.processing = NoProcessing
    /\ Len(page.results) = 1
    /\ page.results[1].employeeId = "102"
    /\ page.results[1].month = 2
    /\ page.activeResultIndex = 0
    /\ page.error = ""

-----------------------------------------------------------------------------
\* C33: when the reads of all uploaded files have settled, in whatever
\* order, availableEmployees is getEmployeeIds of the text of the file held
\* in the file state, the file that processData will read
C33_IdsOfHeldFile ==
    page.reads = {} => page.availableEmployees = GetEmployeeIds(page.file.text)

-----------------------------------------------------------------------------
\* one of fileText, employeeId, month, year is missing from the body, or is
\* the empty string or the number 0
AnyMissing(body) ==
    \/ body.fileText.kind = "undefined"
    \/ body.fileText.kind = "text" /\ Len(body.fileText.value) = 0
    \/ body.employeeId.kind = "undefined"
    \/ body.employeeId.kind = "string" /\ body.employeeId.value = ""
    \/ \E n \in { body.month, body.year } :
          n.kind = "undefined" \/ (n.kind = "number" /\ n.value = 0)

\* analyzeAttendance has not been called
NotCalled == pc = "idle" /\ allEmployeeRecords = <<>> /\ report = NoReport

\* the response to the request, once the handler has responded
ResponseOfRequest ==
    api.stage = "responded" =>
       LET body == api.body
           response == api.responses[1]
       IN  IF body.kind # "object"
           THEN /\ response = JsonResponse(500, ErrorBody("Internal Server Error"))
                /\ NotCalled
           ELSE IF AnyMissing(body)
           THEN /\ response = JsonResponse(400, ErrorBody("Missing required parameters"))
                /\ NotCalled
           ELSE IF body.fileText.kind # "text"
           THEN response = JsonResponse(500, ErrorBody("Internal Server Error"))
           ELSE /\ response.status = 200
                /\ pc = "done"
                /\ response.body = report
                /\ \E up \in BOOLEAN :
                      report \in AnalyzeAttendance(body.fileText.value, body.employeeId.value,
                                                   body.month.value, body.year.value, up)

\* one response at the end, none before, and the handler is never stuck
\* before it has responded
OneResponse ==
    /\ Len(api.responses) = (IF api.stage = "responded" THEN 1 ELSE 0)
    /\ api.stage \in {"reading", "analysing"} => ENABLED NextApi

\* C36: the POST handler responds with status 400 and the error 'Missing
\* required parameters', without calling analyzeAttendance, whenever one of
\* fileText, employeeId, month, year is missing or falsy; with the report
\* that analyzeAttendance returns when all four are present; with status
\* 500 and 'Internal Server Error' when reading the request or the analysis
\* throws; and with exactly one response in every case
C36_PostResponses == ResponseOfRequest /\ OneResponse

\* a request whose month is the number 0, with the three other values
\* present, has been answered with status 400
C36_Witness ==
    /\ api.stage = "responded"
    /\ api.body.kind = "object"
    /\ api.body.fileText.kind = "text" /\ api.body.fileText.value # <<>>
    /\ api.body.employeeId = String("101")
    /\ api.body.month = Number(0)
    /\ api.body.year = Number(2024)
    /\ api.responses = << JsonResponse(400, ErrorBody("Missing required parameters")) >>

-----------------------------------------------------------------------------
\* what the two-pass variant makes of the records as the sort left them
VariantRun == TwoPass(Fresh(allEmployeeRecords))

\* the two implementations mark the same records as double taps
SameDoubleTaps ==
    \A i \in RecordIds :
       allEmployeeRecords[i].isDuplicate = VariantRun.recs[i].isDuplicate

\* they emit the same sessions in the same order, with the same in and out
\* records and statuses, and the same date but for a NO IN RECORD session:
\* the day before the OUT here, the OUT's own date in the variant
SameSessions ==
    LET other == VariantRun.sessions
    IN  /\ Len(other) = Len(sessions)
        /\ \A j \in SessionIds :
              /\ other[j].in = sessions[j].in
              /\ other[j].out = sessions[j].out
              /\ other[j].status = sessions[j].status
              /\ IF sessions[j].status = "NO IN RECORD"
                 THEN /\ sessions[j].date = PrevDay(allEmployeeRecords[sessions[j].out].date)
                      /\ other[j].date = allEmployeeRecords[sessions[j].out].date
                 ELSE other[j].date = sessions[j].date

\* C31: the single-pass implementation (attendance.js) and the two-pass
\* variant (layout.js) agree on every input: the same records are marked
\* isDuplicate and the same sequence of sessions is emitted, with the same
\* in and out records and statuses; they differ only in the date of a NO IN
\* RECORD session
C31_TwoPassAgrees == PassDone => (SameDoubleTaps /\ SameSessions)

\* an IN, a second IN forty minutes later and a third one an hour after
\* the first: the second is a double tap and the third is not, in both
C31_Witness ==
    /\ PassDone
    /\ Len(allEmployeeRecords) = 3
    /\ \A i \in RecordIds : allEmployeeRecords[i].inOutStatus = 0
    /\ allEmployeeRecords[2].isDuplicate
    /\ ~allEmployeeRecords[3].isDuplicate
    /\ Len(sessions) = 2
    /\ Len(VariantRun.sessions) = 2

====
